---- MODULE Spec2Model ----
(***************************************************************************)
(* archvyrt: libvirt guest provisioning.                                   *)
(*                                                                         *)
(* The model follows one invocation of archvyrt.main(): the Domain is      *)
(* defined in libvirt, the provisioner of the guest type runs its stages   *)
(* from its constructor, cleanup() replays the recorded cleanup commands   *)
(* in reverse, then the domain is set to autostart and started.            *)
(*                                                                         *)
(* Strings the code takes apart (disk aliases, mountpoints) are sequences  *)
(* of one-character strings; every external command is a step whose exit   *)
(* code is chosen by the environment.                                      *)
(***************************************************************************)
EXTENDS Naturals, Integers, Sequences, FiniteSets, TLC

VARIABLES
    pc,            \* position of main(): the call or stage in progress
    step,          \* position inside the stage (index of the next step)
    dstep,         \* _prepare_disks: the command about to run for the disk
    diskIdx,       \* index into domain.disks of the disk being prepared
    cur_part,      \* _prepare_disks: cur_part of the disk being prepared
    guesttype,     \* domain.guesttype
    disks,         \* domain.disks (sorted by alias in Domain._init_disks)
    networks,      \* domain.networks, in name order
    interfaces,    \* the <interface> elements of the domain description
                   \* libvirt reports (domain.et), each by its MAC address
    password,      \* domain.password is set
    sshkeys,       \* domain.sshkeys, the items of the dict in order
    self_target,   \* provisioner._target, the constructor's target argument
    defined,       \* libvirt: the domain is defined
    autostarted,   \* libvirt: the domain is set to autostart
    started,       \* libvirt: the domain is running
    mountdir,      \* args.mountpoint exists, created by this run
    self_cleanup,  \* provisioner._cleanup
    self_uuid,     \* provisioner._uuid
    host,          \* host resources: attached nbd devices, mounts, swaps,
                   \* the directories os.makedirs and os.mkdir created,
                   \* what was appended to <target>/etc/fstab, one block
                   \* per write, and the files written below the target
                   \* whose lines the model follows
    cmdlog,        \* every external command run so far, with its exit code
    stagelog,      \* stages whose method has been called, in call order
    cleanupCalls,  \* number of calls of provisioner.cleanup()
    failure,       \* "none", or the exception that ended the run
    failedAt,      \* value of pc when the exception was raised
    call,          \* a call of run() or runchroot() taken on its own: its
                   \* arguments and, once made, what was executed and
                   \* returned; no such call in a run of main()
    os_environ,    \* os.environ of the process
    dom_xml,       \* a LibvirtDomain taken on its own: the children of its
                   \* <domain> element that the setters manage, in order
    dom_last       \* the values last assigned to memory, vcpu and name

vars == <<pc, step, dstep, diskIdx, cur_part, guesttype, disks, networks,
          interfaces, password, sshkeys, self_target, defined, autostarted,
          started, mountdir, self_cleanup, self_uuid, host, cmdlog, stagelog,
          cleanupCalls, failure, failedAt, call, os_environ, dom_xml,
          dom_last>>

(***************************************************************************)
(* Bounds of the model.                                                    *)
(***************************************************************************)
MaxDisks == 2
MaxNets == 1
MaxSwaps == 2        \* swap UUIDs of a UUID map handed to the fstab code
MaxFstabRuns == 2    \* calls of the fstab code on one UUID map
MaxCalls == 2        \* calls of run() or runchroot() made one after another
MaxCleanups == 2     \* calls of cleanup() on one provisioner
MaxAssignments == 4  \* assignments to the attributes of one LibvirtDomain

(***************************************************************************)
(* Strings as character sequences.                                         *)
(***************************************************************************)
Digits == {"0", "1", "2", "3", "4", "5", "6", "7", "8", "9"}

\* code point of the characters the inputs use
Ord(c) ==
    CASE c = "/" -> 47
      [] c = "0" -> 48 [] c = "1" -> 49 [] c = "2" -> 50 [] c = "3" -> 51
      [] c = "4" -> 52 [] c = "5" -> 53 [] c = "6" -> 54 [] c = "7" -> 55
      [] c = "8" -> 56 [] c = "9" -> 57
      [] c = "a" -> 97 [] c = "d" -> 100 [] c = "h" -> 104 [] c = "v" -> 118

\* Python's str < str: lexicographic by code point, a proper prefix is smaller
StrLess(a, b) ==
    \E i \in 1..(Len(b)) :
        /\ \A j \in 1..(i - 1) : j <= Len(a) /\ a[j] = b[j]
        /\ \/ i = Len(a) + 1
           \/ i <= Len(a) /\ Ord(a[i]) < Ord(b[i])

\* str.lstrip('/')
RECURSIVE LStripSlash(_)
LStripSlash(s) ==
    IF s # <<>> /\ Head(s) = "/" THEN LStripSlash(Tail(s)) ELSE s

\* LibvirtDisk.number: re.match(r'^.*?([0-9]+)$', alias).groups()[0],
\* the longest run of digits that ends the alias
RECURSIVE Number(_)
Number(alias) ==
    IF alias = <<>> \/ alias[Len(alias)] \notin Digits
    THEN <<>>
    ELSE Number(SubSeq(alias, 1, Len(alias) - 1)) \o <<alias[Len(alias)]>>

(***************************************************************************)
(* Inputs: the JSON definition of the domain.                              *)
(***************************************************************************)
AliasPool ==
    { <<"d", "0">>, <<"d", "2">>, <<"d", "1", "0">>, <<"a", "1">> }
FsTypes == {"ext4", "swap", "btrfs"}
Mountpoints == { <<"/">>, <<"/", "h">> }
NoMountpoint == <<>>
GuestTypes == {"archlinux", "ubuntu", "plain", "bsd"}
NetNames == {"eth0", "eth1"}

\* def __init__(self, domain, target="/provision", proxy=None); main()
\* constructs the provisioner without a target
DefaultTarget == "/provision"
\* the targets a caller of the constructor passes
ProvisionTargets == {DefaultTarget, "/mnt"}

\* a swap disk declares no mountpoint; the mountpoint of a disk of another
\* fstype is never read
DiskSpecs ==
    [alias : AliasPool, fstype : {"ext4"}, mountpoint : Mountpoints]
    \cup [alias : AliasPool, fstype : {"swap"}, mountpoint : {NoMountpoint}]
    \cup [alias : AliasPool, fstype : FsTypes \ {"ext4", "swap"},
          mountpoint : {<<"/">>}]

\* Domain._init_disks: sorted(domain_info['disks'].items()), keys are unique
IsSortedDisks(ds) ==
    \A i \in 1..(Len(ds) - 1) : StrLess(ds[i].alias, ds[i + 1].alias)

DiskLists ==
    { ds \in UNION { [1..n -> DiskSpecs] : n \in 0..MaxDisks } :
        IsSortedDisks(ds) }

\* an ipv4 or ipv6 block of a network: absent (None), or a dict with an
\* address ("" when the key is missing) and a list of DNS servers
NoBlock == [present |-> FALSE, address |-> <<>>, dns |-> <<>>]
Block(address, dns) == [present |-> TRUE, address |-> address, dns |-> dns]

\* the MAC address libvirt gave the interface of the network, and the mark
\* of an interface whose XML has no <mac> element
MacOf(name) == <<"52:54:00", name>>
NoMac == <<>>

\* a network: LibvirtNetwork(alias, **details) and, in mac, the address of
\* the <mac> element of its realized interface (NoMac when there is none)
Network(name, ipv4, ipv6, mac) ==
    [name |-> name, ipv4 |-> ipv4, ipv6 |-> ipv6, mac |-> mac]

\* a network with a static IPv4 address and no IPv6 block
PlainNetwork(name) ==
    Network(name, Block(<<"10.0.0.5", name>>, <<>>), NoBlock, MacOf(name))

\* Domain._init_networks: sorted(domain_info['networks'].items())
IsSortedNets(ns) ==
    \A i \in 1..(Len(ns) - 1) :
        ns[i].name = "eth0" /\ ns[i + 1].name = "eth1"

NetLists ==
    { ns \in UNION { [1..n -> { PlainNetwork(x) : x \in NetNames }] :
                       n \in 0..MaxNets } :
        IsSortedNets(ns) }

\* the blocks a network can declare
Ipv4Blocks(name) ==
    { NoBlock,
      Block(<<"10.0.0.5", name>>, <<>>),
      Block(<<"10.0.0.5", name>>, << <<"10.0.0.1", name>> >>) }
Ipv6Blocks(name) ==
    { NoBlock,
      Block(<<"fd00::5", name>>, <<>>),
      Block(<<"fd00::5", name>>, << <<"fd00::1", name>> >>) }

NetworkSpecs ==
    UNION { { Network(x, b4, b6, m) :
                b4 \in Ipv4Blocks(x), b6 \in Ipv6Blocks(x),
                m \in {NoMac, MacOf(x)} } : x \in NetNames }

\* the network lists of the descriptors the configuration stages are
\* examined on: every sorted list over the network names
ConfigNetLists ==
    { ns \in UNION { [1..n -> NetworkSpecs] :
                       n \in 0..Cardinality(NetNames) } :
        IsSortedNets(ns) }

\* an entry of access['ssh-keys']: label -> {type, key}
SshKey(label) == [label |-> label, type |-> "ssh-ed25519",
                  key |-> <<"AAAA", label>>]
KeyLabels == <<"alice", "bob">>
\* the dicts of keys: the first n labels, n up to the number of labels
KeyLists ==
    { [i \in 1..n |-> SshKey(KeyLabels[i])] : n \in 0..Len(KeyLabels) }

(***************************************************************************)
(* External commands.  A command is its program and the arguments the      *)
(* claims read: an option, a device number, a partition number, a path.    *)
(***************************************************************************)
Cmd(tool, op, dev, part, path) ==
    [tool |-> tool, op |-> op, dev |-> dev, part |-> part, path |-> path]

NoDev == <<>>
NoPath == <<>>
ExitCodes == {0, 1}

\* what a call gives its caller: an exception, or a value that is the
\* captured output or the exit code
Raised(kind) == [raised |-> kind, rval |-> [kind |-> "none", code |-> 0]]
ReturnedOutput == [raised |-> "none", rval |-> [kind |-> "output", code |-> 0]]
ReturnedCode(rc) == [raised |-> "none", rval |-> [kind |-> "code", code |-> rc]]

\* check_output that hands back what was captured also after a non-zero exit
CheckOutputLenient(rc) == ReturnedOutput

\* output=True: subprocess.check_output(...).decode(), which raises
\* CalledProcessError on a non-zero exit
CheckOutput(rc) ==
    IF rc # 0 THEN Raised("CalledProcessError") ELSE ReturnedOutput

\* subprocess.call followed by an unconditional raise on a non-zero exit
CallAlwaysHard(failhard, rc) ==
    IF rc # 0 THEN Raised("RuntimeError") ELSE ReturnedCode(rc)

\* output=False: rval = subprocess.call(...), then
\* if not rval == 0: if failhard: raise RuntimeError
CallThenFailhard(failhard, rc) ==
    IF rc # 0 /\ failhard THEN Raised("RuntimeError") ELSE ReturnedCode(rc)

\* Base._runcmd(cmds, output, failhard, **kwargs)
RunCmd(output, failhard, rc) ==
    IF output THEN CheckOutput(rc) ELSE CallThenFailhard(failhard, rc)

\* _runcmd with the failhard test lost: only a captured command raises
RunCmdRaisesCapturedOnly(output, failhard, rc) == output /\ rc # 0

\* Base._runcmd: TRUE when the call raises instead of returning
RunCmdRaises(output, failhard, rc) ==
    RunCmd(output, failhard, rc).raised # "none"

(***************************************************************************)
(* The environment of a command.  An environment maps variable names to    *)
(* values; os.environ is the ambient one.                                  *)
(***************************************************************************)
FixedPath == "/usr/local/sbin:/usr/local/bin:/usr/sbin:/usr/bin:/sbin:/bin"
AmbientPaths == {"/opt/site/bin:/usr/bin", FixedPath}
Environs == { [PATH |-> p, HOME |-> "/root"] : p \in AmbientPaths }
NoProxy == ""                      \* proxy=None
Proxies == {NoProxy, "proxy.example.org:3128"}
NoEnv == <<>>                      \* no env keyword (or an empty dict)

\* env[name] = value on a dict
EnvSet(env, name, value) ==
    [n \in DOMAIN env \cup {name} |-> IF n = name THEN value ELSE env[n]]

\* apt_env = os.environ.copy(); apt_env['DEBIAN_FRONTEND'] = "noninteractive"
AptEnv(environ) == EnvSet(environ, "DEBIAN_FRONTEND", "noninteractive")

\* run_env of run(): the env keyword if it is given and not empty, else a
\* copy of os.environ with the proxy variables when a proxy is set
RunEnv(proxy, environ, env) ==
    IF env # NoEnv THEN env
    ELSE IF proxy # NoProxy
         THEN EnvSet(EnvSet(environ, "http_proxy", <<"http://", proxy>>),
                     "ftp_proxy", <<"http://", proxy>>)
         ELSE environ

\* LinuxProvisioner.run: _runcmd(cmds, output, failhard, env=run_env)
LinuxRun(proxy, environ, env) == RunEnv(proxy, environ, env)

\* ArchlinuxProvisioner.run: run_env is built and then
\* _runcmd(cmds, output, failhard, **kwargs) is called without it, so the
\* child process inherits os.environ
ArchlinuxRun(proxy, environ, env) == environ

\* UbuntuProvisioner.runchroot: PATH is set on the env keyword or on a copy
\* of os.environ, and run() is called with the result
UbuntuRunchroot(proxy, environ, env) ==
    LinuxRun(proxy, environ,
             EnvSet(IF env # NoEnv THEN env ELSE environ, "PATH", FixedPath))

\* ArchlinuxProvisioner.runchroot: run(chroot_cmds + cmds, output,
\* failhard, **kwargs)
ArchlinuxRunchroot(proxy, environ, env) == ArchlinuxRun(proxy, environ, env)

\* the environment the command of a call is executed with
ExecEnv(flavor, kind, proxy, environ, env) ==
    CASE flavor = "archlinux" /\ kind = "run" ->
            ArchlinuxRun(proxy, environ, env)
      [] flavor = "archlinux" /\ kind = "runchroot" ->
            ArchlinuxRunchroot(proxy, environ, env)
      [] flavor = "ubuntu" /\ kind = "run" ->
            LinuxRun(proxy, environ, env)
      [] flavor = "ubuntu" /\ kind = "runchroot" ->
            UbuntuRunchroot(proxy, environ, env)

\* the sequence without its last element mounted at path
RemoveLast(ms, path) ==
    LET hits == { i \in 1..Len(ms) : ms[i].path = path } IN
    IF hits = {} THEN ms
    ELSE LET k == CHOOSE i \in hits : \A j \in hits : j <= i IN
         SubSeq(ms, 1, k - 1) \o SubSeq(ms, k + 1, Len(ms))

\* What a command that exits 0 does to the host; a command that exits
\* non-zero leaves the host as it was.
HostEffect(h, cmd, rc) ==
    IF rc # 0 THEN h
    ELSE CASE cmd.tool = "qemu-nbd" /\ cmd.op = "-c" ->
                [h EXCEPT !.attached = Append(@, cmd.dev)]
           [] cmd.tool = "qemu-nbd" /\ cmd.op = "-d" ->
                [h EXCEPT !.attached =
                    SelectSeq(@, LAMBDA d : d # cmd.dev)]
           [] cmd.tool = "mount" ->
                [h EXCEPT !.mounts =
                    Append(@, [dev |-> cmd.dev, part |-> cmd.part,
                               path |-> cmd.path])]
           [] cmd.tool = "umount" ->
                [h EXCEPT !.mounts = RemoveLast(@, cmd.path)]
           [] cmd.tool = "swapon" ->
                [h EXCEPT !.swaps =
                    Append(@, [dev |-> cmd.dev, part |-> cmd.part])]
           [] cmd.tool = "swapoff" ->
                [h EXCEPT !.swaps =
                    SelectSeq(@, LAMBDA w :
                        ~(w.dev = cmd.dev /\ w.part = cmd.part))]
           [] OTHER -> h

EmptyHost ==
    [attached |-> <<>>, mounts |-> <<>>, swaps |-> <<>>, dirs |-> <<>>,
     fstab |-> <<>>, files |-> <<>>]
EmptyUuid == [keys |-> <<>>, ext4 |-> <<>>, swap |-> <<>>]

(***************************************************************************)
(* The run.                                                                *)
(***************************************************************************)
NoCall == [state |-> "none"]

\* os.environ of a run of main()
AmbientEnviron == [PATH |-> "/opt/site/bin:/usr/bin", HOME |-> "/root"]

\* no LibvirtDomain is examined on its own
NoAssignment == [set |-> FALSE, value |-> 0, text |-> ""]
NoAssignments ==
    [memory |-> NoAssignment, vcpu |-> NoAssignment, name |-> NoAssignment]

\* the parts examined on their own are not exercised
StandaloneIdle ==
    /\ call = NoCall
    /\ os_environ = AmbientEnviron
    /\ dom_xml = <<>>
    /\ dom_last = NoAssignments

\* domain.et of the domain defined from the descriptor: Domain._init_networks
\* adds the xml of every network, and libvirt returns one <interface> for
\* each, with the MAC address it gave it
Realized(ns) == [i \in 1..Len(ns) |-> ns[i].mac]

Min(a, b) == IF a <= b THEN a ELSE b

\* zip(interfaces, self.domain.networks) with network.xml = interface: the
\* pairs up to the shorter of the two lists, each network with the
\* description (the MAC address) of the interface at its position
Zip(ifs, ns) ==
    [i \in 1..Min(Len(ifs), Len(ns)) |-> [ns[i] EXCEPT !.mac = ifs[i]]]

inputs == <<guesttype, disks, networks, interfaces, password, sshkeys,
            self_target>>
\* what the parts of the program that are examined on their own work on
standalone == <<call, os_environ, dom_xml, dom_last>>
libvirt == <<defined, autostarted, started>>

Init ==
    /\ pc = "Domain"
    /\ step = 0
    /\ dstep = "none"
    /\ diskIdx = 0
    /\ cur_part = 0
    /\ guesttype \in GuestTypes
    /\ disks \in DiskLists
    /\ networks \in NetLists
    /\ password \in BOOLEAN
    /\ sshkeys \in { ks \in KeyLists : Len(ks) <= 1 }
    /\ interfaces = Realized(networks)
    /\ self_target = DefaultTarget
    /\ defined = FALSE
    /\ autostarted = FALSE
    /\ started = FALSE
    /\ mountdir = FALSE
    /\ self_cleanup = <<>>
    /\ self_uuid = EmptyUuid
    /\ host = EmptyHost
    /\ cmdlog = <<>>
    /\ stagelog = <<>>
    /\ cleanupCalls = 0
    /\ failure = "none"
    /\ failedAt = "none"
    /\ StandaloneIdle

\* an exception leaves main(): nothing catches it
Raise(kind) ==
    /\ pc' = "failed"
    /\ failure' = kind
    /\ failedAt' = pc

NoRaise == UNCHANGED <<failure, failedAt>>

\* the exit codes the host gives a command: umount of a path nothing is
\* mounted at and swapoff of a partition that is not active swap exit
\* non-zero
CanExit(h, cmd, rc) ==
    CASE cmd.tool = "umount" ->
            (\E i \in DOMAIN h.mounts : h.mounts[i].path = cmd.path)
            \/ rc # 0
      [] cmd.tool = "swapoff" ->
            (\E i \in DOMAIN h.swaps :
                h.swaps[i].dev = cmd.dev /\ h.swaps[i].part = cmd.part)
            \/ rc # 0
      [] OTHER -> TRUE

\* subprocess runs cmd; it exits with rc
Exec(cmd, rc) ==
    /\ CanExit(host, cmd, rc)
    /\ cmdlog' = Append(cmdlog, [stage |-> pc, cmd |-> cmd, rc |-> rc])
    /\ host' = HostEffect(host, cmd, rc)

\* the constructor with _locale_config called before _network_config
StagesLocaleFirst ==
    <<"prepare_disks", "install", "locale_config", "network_config",
      "boot_config", "access_config">>

\* LinuxProvisioner.__init__: the stage methods in call order
Stages ==
    <<"prepare_disks", "install", "network_config", "locale_config",
      "boot_config", "access_config">>

StageIndex(s) == CHOOSE i \in 1..Len(Stages) : Stages[i] = s

\* the call of stage method s
CallStage(s) ==
    /\ pc' = s
    /\ stagelog' = Append(stagelog, s)

\* main(): provisioner.cleanup() is called; the loop over
\* reversed(self._cleanup) starts at the last entry, and with nothing to
\* do cleanup() returns and domain.autostart(True) is next
CallCleanup ==
    /\ cleanupCalls' = cleanupCalls + 1
    /\ step' = 1
    /\ pc' = IF self_cleanup = <<>> THEN "autostart" ELSE "cleanup"

\* the stage method at pc returns: the next one is called, or the
\* constructor returns to main(), which calls cleanup()
ReturnFromStage ==
    IF StageIndex(pc) < Len(Stages)
    THEN /\ CallStage(Stages[StageIndex(pc) + 1])
         /\ step' = 1
         /\ UNCHANGED cleanupCalls
    ELSE /\ CallCleanup
         /\ UNCHANGED stagelog

(***************************************************************************)
(* LinuxProvisioner._prepare_disks                                         *)
(***************************************************************************)
Disk == disks[diskIdx]
Dev == Number(Disk.alias)          \* dev = '/dev/nbd%s' % disk.number

\* mountpoint = '/provision/%s' % disk.mountpoint.lstrip('/')
MountPath(disk) == <<"/provision", "/">> \o LStripSlash(disk.mountpoint)

\* the branch on disk.fstype that follows the partitioning
FstypeBranch(disk) ==
    CASE disk.fstype = "ext4" -> "mkfs"
      [] disk.fstype = "swap" -> "swaptype"
      [] OTHER -> "unsupported"

\* self._uuid.setdefault('ext4', {})[mountpoint] = uuid
SetExt4Uuid(u, mountpoint, uuid) ==
    [keys |-> IF \E i \in 1..Len(u.keys) : u.keys[i] = "ext4"
              THEN u.keys ELSE Append(u.keys, "ext4"),
     ext4 |-> [m \in DOMAIN u.ext4 \cup {mountpoint} |->
                 IF m = mountpoint THEN uuid ELSE u.ext4[m]],
     swap |-> u.swap]

\* self._uuid.setdefault('swap', []).append(uuid)
AddSwapUuid(u, uuid) ==
    [keys |-> IF \E i \in 1..Len(u.keys) : u.keys[i] = "swap"
              THEN u.keys ELSE Append(u.keys, "swap"),
     ext4 |-> u.ext4,
     swap |-> Append(u.swap, uuid)]

\* blkid -s UUID -o value <dev>p<part>: the UUID of the filesystem made there
Uuid(dev, part) == [dev |-> dev, part |-> part]

\* the head of the for loop over domain.disks: the next disk, or after the
\* last one _prepare_disks returns
DiskLoop ==
    /\ pc = "prepare_disks"
    /\ dstep = "loop"
    /\ IF diskIdx < Len(disks)
       THEN /\ diskIdx' = diskIdx + 1
            /\ dstep' = "attach"
            /\ UNCHANGED <<pc, step, stagelog, cleanupCalls>>
       ELSE /\ ReturnFromStage
            /\ dstep' = "none"
            /\ UNCHANGED diskIdx
    /\ UNCHANGED <<cur_part, inputs, standalone, libvirt, mountdir, self_cleanup,
                   self_uuid, host, cmdlog, failure, failedAt>>

\* self.run(cmd) of _prepare_disks at position `at`; when it returns,
\* `push` is appended to self._cleanup, self._uuid becomes `uuid` and the
\* method continues at `next`
DiskCommand(at, cmd, output, push, uuid, part, next) ==
    /\ pc = "prepare_disks"
    /\ dstep = at
    /\ \E rc \in ExitCodes :
        /\ Exec(cmd, rc)
        /\ IF RunCmdRaises(output, TRUE, rc)
           THEN /\ Raise(IF output THEN "CalledProcessError"
                                   ELSE "RuntimeError")
                /\ UNCHANGED <<step, dstep, diskIdx, self_cleanup,
                               self_uuid, stagelog, cleanupCalls>>
           ELSE /\ self_cleanup' = self_cleanup \o push
                /\ self_uuid' = uuid
                /\ NoRaise
                /\ dstep' = next
                /\ UNCHANGED <<pc, step, diskIdx, stagelog, cleanupCalls>>
    /\ cur_part' = part
    /\ UNCHANGED <<inputs, standalone, libvirt, mountdir>>

\* qemu-nbd -c without cur_part = 0 at the head of the loop body: the
\* partition counter runs on across the disks
AttachKeepsPart ==
    DiskCommand("attach", Cmd("qemu-nbd", "-c", Dev, 0, NoPath), FALSE,
                <<Cmd("qemu-nbd", "-d", Dev, 0, NoPath)>>, self_uuid,
                cur_part, "table")

\* cur_part = 0; qemu-nbd -n -c dev disk.path, then the detach command is
\* recorded
Attach ==
    DiskCommand("attach", Cmd("qemu-nbd", "-c", Dev, 0, NoPath), FALSE,
                <<Cmd("qemu-nbd", "-d", Dev, 0, NoPath)>>, self_uuid,
                0, "table")

\* sgdisk -o dev with the test on disk.number lost: no disk gets the
\* BIOS boot partition
CreateTableNoBoot ==
    DiskCommand("table", Cmd("sgdisk", "-o", Dev, 0, NoPath), FALSE,
                <<>>, self_uuid, cur_part, "singlepart")

\* sgdisk -o dev, then the branch on disk.number == '0'
CreateTable ==
    DiskCommand("table", Cmd("sgdisk", "-o", Dev, 0, NoPath), FALSE,
                <<>>, self_uuid, cur_part,
                IF Dev = <<"0">> THEN "biosboot" ELSE "singlepart")

\* first disk: sgdisk -n 1:2048:4095 -t 1:ef02 dev
CreateBiosBoot ==
    DiskCommand("biosboot",
                Cmd("sgdisk", "-n:2048:4095 -t:ef02", Dev, cur_part + 1,
                    NoPath),
                FALSE, <<>>, self_uuid, cur_part + 1, "endsector")

\* first disk: sgdisk -E dev, output captured
ReadEndSector ==
    DiskCommand("endsector", Cmd("sgdisk", "-E", Dev, 0, NoPath), TRUE,
                <<>>, self_uuid, cur_part, "rootpart")

\* first disk: sgdisk -n 2:4096:endsector dev
CreateSecondPartition ==
    DiskCommand("rootpart",
                Cmd("sgdisk", "-n:4096:endsector", Dev, cur_part + 1, NoPath),
                FALSE, <<>>, self_uuid, cur_part + 1, FstypeBranch(Disk))

\* other disks: sgdisk -n 1 dev
CreateSinglePartition ==
    DiskCommand("singlepart",
                Cmd("sgdisk", "-n", Dev, cur_part + 1, NoPath),
                FALSE, <<>>, self_uuid, cur_part + 1, FstypeBranch(Disk))

\* mkfs.ext4 with the test on the mountpoint lost: every ext4 disk is
\* treated as a non-root disk
MkfsExt4NoLabel ==
    DiskCommand("mkfs", Cmd("mkfs.ext4", "", Dev, cur_part, NoPath), FALSE,
                <<>>, self_uuid, cur_part, "makedirs")

\* ext4: mkfs.ext4 <dev>p<cur_part>, then the branch on the mountpoint
MkfsExt4 ==
    DiskCommand("mkfs", Cmd("mkfs.ext4", "", Dev, cur_part, NoPath), FALSE,
                <<>>, self_uuid, cur_part,
                IF Disk.mountpoint = <<"/">> THEN "label" ELSE "makedirs")

\* ext4 on "/": tune2fs -L ROOTFS <dev>p<cur_part>
LabelRoot ==
    DiskCommand("label", Cmd("tune2fs", "-L ROOTFS", Dev, cur_part, NoPath),
                FALSE, <<>>, self_uuid, cur_part, "mount")

\* ext4 elsewhere: os.makedirs(mountpoint), which raises OSError when it
\* cannot create the directory
MakeDirs ==
    /\ pc = "prepare_disks"
    /\ dstep = "makedirs"
    /\ \/ /\ dstep' = "mount"
          /\ host' = [host EXCEPT !.dirs = Append(@, MountPath(Disk))]
          /\ UNCHANGED <<pc, failure, failedAt>>
       \/ /\ Raise("OSError")
          /\ UNCHANGED <<dstep, host>>
    /\ UNCHANGED <<step, diskIdx, cur_part, inputs, standalone, libvirt, mountdir,
                   self_cleanup, self_uuid, cmdlog, stagelog,
                   cleanupCalls>>

\* ext4: mount <dev>p<cur_part> mountpoint, then the umount is recorded
Mount ==
    DiskCommand("mount",
                Cmd("mount", "", Dev, cur_part, MountPath(Disk)), FALSE,
                <<Cmd("umount", "", NoDev, 0, MountPath(Disk))>>,
                self_uuid, cur_part, "blkid_ext4")

\* ext4: blkid -s UUID -o value <dev>p<cur_part>, output captured and stored
ReadExt4Uuid ==
    DiskCommand("blkid_ext4", Cmd("blkid", "-s UUID", Dev, cur_part, NoPath),
                TRUE, <<>>,
                SetExt4Uuid(self_uuid, Disk.mountpoint, Uuid(Dev, cur_part)),
                cur_part, "loop")

\* sgdisk -t <cur_part>:8200 dev followed at once by the swapon: the
\* partition is activated without having been formatted
SetSwapTypeSkipsMkswap ==
    DiskCommand("swaptype", Cmd("sgdisk", "-t:8200", Dev, cur_part, NoPath),
                FALSE, <<>>, self_uuid, cur_part, "swapon")

\* swap: sgdisk -t <cur_part>:8200 dev
SetSwapType ==
    DiskCommand("swaptype", Cmd("sgdisk", "-t:8200", Dev, cur_part, NoPath),
                FALSE, <<>>, self_uuid, cur_part, "mkswap")

\* swap: mkswap -f <dev>p<cur_part>
Mkswap ==
    DiskCommand("mkswap", Cmd("mkswap", "-f", Dev, cur_part, NoPath), FALSE,
                <<>>, self_uuid, cur_part, "swapon")

\* swapon without the swapoff being recorded
SwaponNoPush ==
    DiskCommand("swapon", Cmd("swapon", "", Dev, cur_part, NoPath), FALSE,
                <<>>, self_uuid, cur_part, "blkid_swap")

\* swap: swapon <dev>p<cur_part>, then the swapoff is recorded
Swapon ==
    DiskCommand("swapon", Cmd("swapon", "", Dev, cur_part, NoPath), FALSE,
                <<Cmd("swapoff", "", Dev, cur_part, NoPath)>>,
                self_uuid, cur_part, "blkid_swap")

\* swap: blkid -s UUID -o value <dev>p<cur_part>, output captured and stored
ReadSwapUuid ==
    DiskCommand("blkid_swap", Cmd("blkid", "-s UUID", Dev, cur_part, NoPath),
                TRUE, <<>>, AddSwapUuid(self_uuid, Uuid(Dev, cur_part)),
                cur_part, "loop")

\* any other fstype: raise RuntimeError('Unsupported fstype %s', ...)
UnsupportedFstype ==
    /\ pc = "prepare_disks"
    /\ dstep = "unsupported"
    /\ Raise("UnsupportedFstype")
    /\ UNCHANGED <<step, dstep, diskIdx, cur_part, inputs, standalone, libvirt, mountdir,
                   self_cleanup, self_uuid, host, cmdlog, stagelog,
                   cleanupCalls>>

PrepareDisks ==
    \/ DiskLoop \/ Attach \/ CreateTable \/ CreateBiosBoot \/ ReadEndSector
    \/ CreateSecondPartition \/ CreateSinglePartition \/ MkfsExt4
    \/ LabelRoot \/ MakeDirs \/ Mount \/ ReadExt4Uuid \/ SetSwapType
    \/ Mkswap \/ Swapon \/ ReadSwapUuid \/ UnsupportedFstype

(***************************************************************************)
(* The stages after disk preparation, per guest type.  A stage is the      *)
(* sequence of its steps: commands on the host (run), commands in the      *)
(* guest (runchroot), files written below the target and os calls.         *)
(***************************************************************************)
Target == <<self_target>>             \* self.target

RunStep(tool, op, dev, path) ==
    [kind |-> "run", cmd |-> Cmd(tool, op, dev, 0, path), rootuuid |-> FALSE]

\* runchroot: /usr/bin/arch-chroot self.target cmds...
ChrootStep(op, dev) ==
    [kind |-> "chroot", cmd |-> Cmd("arch-chroot", op, dev, 0, Target),
     rootuuid |-> FALSE]

WriteStep(path) ==
    [kind |-> "write", cmd |-> Cmd("writefile", "", NoDev, 0, path),
     rootuuid |-> FALSE]

OsStep(op, path) ==
    [kind |-> "os", cmd |-> Cmd("os", op, NoDev, 0, path),
     rootuuid |-> FALSE]

\* writetargetfile(path, lines) for a file whose lines the model follows
WriteLinesStep(path, lines) ==
    [kind |-> "writelines", cmd |-> Cmd("writefile", "", NoDev, 0, path),
     rootuuid |-> FALSE, lines |-> lines]

\* an expression of the stage that raises
RaiseStep(exception) ==
    [kind |-> "raise", cmd |-> Cmd("raise", exception, NoDev, 0, NoPath),
     rootuuid |-> FALSE]

\* sed -i -e s/... root=UUID=<self._uuid['ext4']['/']>/ <target>/boot/grub/grub.cfg
SedRootUuidStep ==
    [kind |-> "run",
     cmd |-> Cmd("sed", "root=UUID", NoDev, 0, Target \o <<"/boot/grub/grub.cfg">>),
     rootuuid |-> TRUE]

\* LibvirtNetwork.ipv4_address, ipv6_address: an address unless the block
\* or its address key is missing
HasAddress(block) == block.present /\ block.address # <<>>

\* LibvirtNetwork.dns: the servers of the ipv4 block, then those of the
\* ipv6 block; the AttributeError of a missing block (None.get) ends the
\* collection with what was gathered before it
Dns(n) ==
    IF ~n.ipv4.present THEN <<>>
    ELSE n.ipv4.dns \o (IF n.ipv6.present THEN n.ipv6.dns ELSE <<>>)

\* addresses after the loop: ipv4_address.ip, then ipv6_address.ip, of
\* each network in turn
RECURSIVE Addresses(_)
Addresses(ns) ==
    IF ns = <<>> THEN <<>>
    ELSE (IF HasAddress(Head(ns).ipv4) THEN <<Head(ns).ipv4.address>>
                                       ELSE <<>>)
         \o (IF HasAddress(Head(ns).ipv6) THEN <<Head(ns).ipv6.address>>
                                          ELSE <<>>)
         \o Addresses(Tail(ns))

\* 'SUBSYSTEM=="net", ACTION=="add", ATTR{address}=="%s", NAME="%s"'
UdevLine(n) == [mac |-> n.mac, name |-> n.name]

\* udev_lines after the loop: one rule for each network whose interface
\* has a MAC address
RECURSIVE UdevLines(_)
UdevLines(ns) ==
    IF ns = <<>> THEN <<>>
    ELSE (IF Head(ns).mac # NoMac THEN <<UdevLine(Head(ns))>> ELSE <<>>)
         \o UdevLines(Tail(ns))

\* dns_servers after the loop (Ubuntu): 'nameserver %s' for each server of
\* network.dns
RECURSIVE DnsServers(_)
DnsServers(ns) ==
    IF ns = <<>> THEN <<>>
    ELSE [i \in 1..Len(Dns(Head(ns))) |->
             [nameserver |-> Dns(Head(ns))[i]]]
         \o DnsServers(Tail(ns))

\* a line of /etc/hosts
HostsLine(address, names) == [address |-> address, names |-> names]

\* host_entries: the two loopback lines, then '%s %s %s' % (address,
\* fqdn, hostname) for each address
HostEntries(ns) ==
    <<HostsLine(<<"127.0.0.1">>, "localhost.localdomain localhost"),
      HostsLine(<<"::1">>, "localhost.localdomain localhost")>>
    \o [i \in 1..Len(Addresses(ns)) |->
            HostsLine(Addresses(ns)[i], "fqdn hostname")]

\* '/etc/netctl/%s' % network.name, '/etc/network/interfaces.d/%s' %
\* network.name
InterfaceFile(gt, name) ==
    IF gt = "archlinux" THEN <<"/etc/netctl/", name>>
                        ELSE <<"/etc/network/interfaces.d/", name>>

\* network.netctl: of the lines of the profile, 'Interface=%s' % self.name
\* and, if self.dns, 'DNS=(%s)' with the servers of self.dns
InterfaceLines(n) ==
    <<[key |-> "Interface", value |-> <<n.name>>]>>
    \o (IF Dns(n) # <<>> THEN <<[key |-> "DNS", value |-> Dns(n)]>>
                          ELSE <<>>)

\* the body of the loop over zip(interfaces, self.domain.networks):
\* network.mac raises AttributeError when the interface has no <mac>
\* element.  Arch Linux then writes network.netctl to the file of the
\* network and enables the profile; Ubuntu evaluates network.interfaces,
\* an attribute LibvirtNetwork does not have, which raises AttributeError
\* before writetargetfile is called
RECURSIVE NetworkLoop(_, _)
NetworkLoop(gt, ns) ==
    IF ns = <<>> THEN <<>>
    ELSE (IF Head(ns).mac = NoMac THEN <<RaiseStep("AttributeError")>>
                               ELSE <<>>)
         \o (IF gt = "archlinux"
             THEN <<WriteLinesStep(InterfaceFile(gt, Head(ns).name),
                                   InterfaceLines(Head(ns))),
                    ChrootStep("netctl enable", NoDev)>>
             ELSE <<RaiseStep("AttributeError")>>)
         \o NetworkLoop(gt, Tail(ns))

\* what follows the loop in both flavors: the udev rules, the hostname and
\* /etc/hosts
NetworkFiles(ns) ==
    <<WriteLinesStep(<<"/etc/udev/rules.d/10-network.rules">>, UdevLines(ns)),
      WriteStep(<<"/etc/hostname">>),
      WriteLinesStep(<<"/etc/hosts">>, HostEntries(ns))>>

\* Ubuntu: if dns_servers, the two resolvconf files
ResolvconfFiles(ns) ==
    IF DnsServers(ns) # <<>>
    THEN <<WriteLinesStep(<<"/etc/resolvconf/resolv.conf.d/original">>,
                          DnsServers(ns)),
           WriteLinesStep(<<"/etc/resolvconf/resolv.conf.d/tail">>,
                          DnsServers(ns))>>
    ELSE <<>>

\* authorized_keys: "%s %s %s" % (value['type'], value['key'], key) for
\* each item of domain.sshkeys
AuthorizedKeys(keys) ==
    [i \in 1..Len(keys) |->
        [type |-> keys[i].type, key |-> keys[i].key, label |-> keys[i].label]]

\* the end of _access_config with the test on domain.password lost
AccessTailAlwaysPassword(pw, keys) ==
    <<ChrootStep("usermod -p", NoDev)>>
    \o (IF keys # <<>>
        THEN <<OsStep("mkdir", Target \o <<"/root/.ssh">>),
               WriteLinesStep(<<"/root/.ssh/authorized_keys">>,
                              AuthorizedKeys(keys))>>
        ELSE <<>>)

\* the password and ssh-key part that ends _access_config
AccessTail(pw, keys) ==
    (IF pw THEN <<ChrootStep("usermod -p", NoDev)>> ELSE <<>>)
    \o (IF keys # <<>>
        THEN <<OsStep("mkdir", Target \o <<"/root/.ssh">>),
               WriteLinesStep(<<"/root/.ssh/authorized_keys">>,
                              AuthorizedKeys(keys))>>
        ELSE <<>>)

\* the script that vetoes the start of services in the chroot
PolicyScript == <<"/usr/sbin/policy-rc.d">>

ArchlinuxSteps(stage, ns, pw, keys) ==
    CASE stage = "install" ->
           <<RunStep("pacstrap", "base", NoDev, Target)>>
      [] stage = "network_config" ->
           NetworkLoop("archlinux", ns) \o NetworkFiles(ns)
      [] stage = "locale_config" ->
           <<WriteStep(<<"/etc/locale.gen">>),
             WriteStep(<<"/etc/locale.conf">>),
             WriteStep(<<"/etc/vconsole.conf">>),
             ChrootStep("ln -sf localtime", NoDev),
             ChrootStep("locale-gen", NoDev)>>
      [] stage = "boot_config" ->
           <<WriteStep(<<"/etc/fstab">>),
             WriteStep(<<"/etc/mkinitcpio.conf">>),
             ChrootStep("mkinitcpio -p linux", NoDev),
             ChrootStep("pacman -Syy grub", NoDev),
             ChrootStep("grub-install", <<"0">>),
             ChrootStep("grub-mkconfig", NoDev),
             SedRootUuidStep>>
      [] stage = "access_config" ->
           <<ChrootStep("pacman -Syy openssh", NoDev),
             ChrootStep("systemctl enable sshd.service", NoDev),
             ChrootStep("systemctl enable getty@ttyS0.service", NoDev)>>
           \o AccessTail(pw, keys)

UbuntuSteps(stage, ns, pw, keys) ==
    CASE stage = "install" ->
           <<RunStep("debootstrap", "xenial", NoDev, Target)>>
      [] stage = "network_config" ->
           NetworkLoop("ubuntu", ns) \o NetworkFiles(ns)
           \o ResolvconfFiles(ns)
      [] stage = "locale_config" -> <<>>
      [] stage = "boot_config" ->
           <<WriteStep(<<"/etc/fstab">>),
             ChrootStep("apt-get install grub-pc", NoDev),
             ChrootStep("grub-install", <<"0">>),
             ChrootStep("systemctl enable getty@ttyS0.service", NoDev),
             ChrootStep("sed /etc/default/grub", NoDev),
             ChrootStep("update-grub", NoDev),
             SedRootUuidStep>>
      [] stage = "access_config" ->
           <<WriteLinesStep(PolicyScript, <<[text |-> "exit 101"]>>),
             OsStep("chmod", Target \o PolicyScript),
             ChrootStep("apt-get install ssh", NoDev),
             OsStep("remove", Target \o PolicyScript)>>
           \o AccessTail(pw, keys)

StageSteps(gt, stage, ns, pw, keys) ==
    IF gt = "archlinux" THEN ArchlinuxSteps(stage, ns, pw, keys)
                        ELSE UbuntuSteps(stage, ns, pw, keys)

(***************************************************************************)
(* The fstab lines of _boot_config (_fstab_config in base.py).             *)
(***************************************************************************)
\* "UUID=%s %s <fstype> <options> 0 %d"
FstabLine(uuid, dir, fstype, options, pass) ==
    [uuid |-> uuid, dir |-> dir, fstype |-> fstype, options |-> options,
     dump |-> 0, pass |-> pass]

\* sorted(value.items()): the keys in ascending str order
RECURSIVE SortedKeys(_)
SortedKeys(S) ==
    IF S = {} THEN <<>>
    ELSE LET m == CHOOSE x \in S : \A y \in S \ {x} : StrLess(x, y)
         IN  <<m>> \o SortedKeys(S \ {m})

\* the ext4 branch with fsckcount never advanced past 1
Ext4LinesPassOne(value) ==
    LET mps == SortedKeys(DOMAIN value) IN
    [i \in 1..Len(mps) |->
        FstabLine(value[mps[i]], mps[i], "ext4", "rw,relatime,data=ordered",
                  1)]

\* key == 'ext4': for mountpoint, uuid in sorted(value.items()), with
\* fsckcount starting at 0 and incremented before each line
Ext4Lines(value) ==
    LET mps == SortedKeys(DOMAIN value) IN
    [i \in 1..Len(mps) |->
        FstabLine(value[mps[i]], mps[i], "ext4", "rw,relatime,data=ordered",
                  0 + i)]

\* key == 'swap': for uuid in value
SwapLines(value) ==
    [i \in 1..Len(value) |->
        FstabLine(value[i], <<"none">>, "swap", "defaults", 0)]

\* for key, value in self._uuid.items(), from the k-th key on; acc holds
\* ext4_lines and swap_lines
RECURSIVE FstabLoop(_, _, _)
FstabLoop(u, k, acc) ==
    IF k > Len(u.keys) THEN acc
    ELSE FstabLoop(u, k + 1,
            CASE u.keys[k] = "swap" ->
                    [acc EXCEPT !.swap = @ \o SwapLines(u.swap)]
              [] u.keys[k] = "ext4" ->
                    [acc EXCEPT !.ext4 = @ \o Ext4Lines(u.ext4)]
              [] OTHER -> acc)

\* the lines in the order the keys of self._uuid are met
FstabLinesInKeyOrder(u) ==
    LET acc == FstabLoop(u, 1, [ext4 |-> <<>>, swap |-> <<>>]) IN
    IF u.keys # <<>> /\ u.keys[1] = "swap"
    THEN acc.swap \o acc.ext4
    ELSE acc.ext4 \o acc.swap

\* the lines handed to writetargetfile: ext4_lines + swap_lines
FstabLines(u) ==
    LET acc == FstabLoop(u, 1, [ext4 |-> <<>>, swap |-> <<>>]) IN
    acc.ext4 \o acc.swap

\* an empty line of a file
BlankLine == FstabLine(Uuid(NoDev, 0), <<>>, "", "", 0)

\* Base.writefile: fobj.write('%s\n' % '\n'.join(lines)); no lines give
\* one empty line
WriteFile(lines) == IF lines = <<>> THEN <<BlankLine>> ELSE lines

\* the fstab code with swap_lines and ext4_lines emptied in every turn of
\* the loop, as fsckcount is: the lines of the last key alone are written
AppendFstabLastKey(h, u) ==
    [h EXCEPT !.fstab =
        Append(@, WriteFile(
            IF u.keys = <<>> THEN <<>>
            ELSE IF u.keys[Len(u.keys)] = "swap" THEN SwapLines(u.swap)
            ELSE Ext4Lines(u.ext4)))]

\* writetargetfile('/etc/fstab', ext4_lines + swap_lines, 'a')
AppendFstab(h, u) ==
    [h EXCEPT !.fstab = Append(@, WriteFile(FstabLines(u)))]

\* what a file or os step of a stage leaves on the host
FileEffect(h, st, u) ==
    CASE st.kind = "write" /\ st.cmd.path = <<"/etc/fstab">> ->
            AppendFstab(h, u)
      [] st.kind = "writelines" ->
            [h EXCEPT !.files =
                Append(@, [path |-> st.cmd.path, lines |-> st.lines])]
      [] st.kind = "os" /\ st.cmd.op = "mkdir" ->
            [h EXCEPT !.dirs = Append(@, st.cmd.path)]
      [] st.kind = "os" /\ st.cmd.op = "remove" ->
            [h EXCEPT !.files =
                SelectSeq(@, LAMBDA f : Target \o f.path # st.cmd.path)]
      [] OTHER -> h

\* self._uuid['ext4']['/'] can be read
HasRootUuid(u) == <<"/">> \in DOMAIN u.ext4

\* One step of the stage method s: the next command, file or os call of
\* the method, or its return when none is left.  Every command of a stage
\* runs with failhard at its default.
StageStep(s) ==
    /\ pc = s
    /\ LET steps == StageSteps(guesttype, s, Zip(interfaces, networks), password,
                               sshkeys) IN
       IF step > Len(steps)
       THEN /\ ReturnFromStage
            /\ NoRaise
            /\ UNCHANGED <<host, cmdlog>>
       ELSE LET st == steps[step] IN
            IF st.kind \in {"run", "chroot"}
            THEN IF st.rootuuid /\ ~HasRootUuid(self_uuid)
                 THEN /\ Raise("KeyError")
                      /\ UNCHANGED <<step, stagelog, cleanupCalls, host,
                                     cmdlog>>
                 ELSE \E rc \in ExitCodes :
                        /\ Exec(st.cmd, rc)
                        /\ IF RunCmdRaises(FALSE, TRUE, rc)
                           THEN /\ Raise("RuntimeError")
                                /\ UNCHANGED step
                           ELSE /\ step' = step + 1
                                /\ UNCHANGED pc
                                /\ NoRaise
                        /\ UNCHANGED <<stagelog, cleanupCalls>>
            ELSE IF st.kind = "raise"
            THEN /\ Raise(st.cmd.op)
                 /\ UNCHANGED <<step, stagelog, cleanupCalls, host, cmdlog>>
            ELSE /\ \/ /\ step' = step + 1
                       /\ host' = FileEffect(host, st, self_uuid)
                       /\ UNCHANGED pc
                       /\ NoRaise
                    \/ /\ Raise("OSError")
                       /\ UNCHANGED <<step, host>>
                 /\ UNCHANGED <<stagelog, cleanupCalls, cmdlog>>
    /\ UNCHANGED <<dstep, diskIdx, cur_part, inputs, standalone, libvirt, mountdir,
                   self_cleanup, self_uuid>>

Install == StageStep("install")
NetworkConfig == StageStep("network_config")
LocaleConfig == StageStep("locale_config")
BootConfig == StageStep("boot_config")
AccessConfig == StageStep("access_config")

(***************************************************************************)
(* main() and LinuxProvisioner.cleanup                                     *)
(***************************************************************************)
\* Domain(json.load(jsonfile)): conn.defineXML(self.xml), then
\* conn.lookupByName(self.fqdn).XMLDesc(); either call can raise, the
\* second one with the domain already defined
DomainInit ==
    /\ pc = "Domain"
    /\ \/ /\ defined' = TRUE
          /\ pc' = "dispatch"
          /\ NoRaise
       \/ /\ Raise("libvirtError")
          /\ UNCHANGED defined
       \/ /\ Raise("libvirtError")
          /\ defined' = TRUE
    /\ UNCHANGED <<step, dstep, diskIdx, cur_part, inputs, standalone, autostarted,
                   started, mountdir, self_cleanup, self_uuid, host, cmdlog,
                   stagelog, cleanupCalls>>

\* main() with the plain branch provisioning like the others
DiskBackedWithPlain(gt) == gt \in {"archlinux", "ubuntu", "plain"}

\* the guest types whose branch of main() provisions disks and starts
\* the domain
DiskBacked(gt) == gt \in {"archlinux", "ubuntu"}

\* main() without the final else: any other guest type is taken as plain
SupportedAny(gt) == TRUE

\* the guest types main() has a branch for
Supported(gt) == DiskBacked(gt) \/ gt = "plain"

\* the if/elif chain of main() on domain.guesttype.  The plain branch
\* builds PlainProvisioner, whose constructor does nothing, and calls its
\* cleanup(), which does nothing.
Dispatch ==
    /\ pc = "dispatch"
    /\ IF DiskBacked(guesttype)
       THEN /\ pc' = "mkdir"
            /\ NoRaise
            /\ UNCHANGED <<step, cleanupCalls>>
       ELSE IF Supported(guesttype)
       THEN /\ CallCleanup
            /\ NoRaise
       ELSE /\ Raise("UnsupportedGuestType")
            /\ UNCHANGED <<step, cleanupCalls>>
    /\ UNCHANGED <<dstep, diskIdx, cur_part, inputs, standalone, libvirt, mountdir,
                   self_cleanup, self_uuid, host, cmdlog, stagelog>>

\* os.mkdir(args.mountpoint), then the provisioner's constructor runs:
\* it calls _prepare_disks
Mkdir ==
    /\ pc = "mkdir"
    /\ \/ /\ mountdir' = TRUE
          /\ CallStage("prepare_disks")
          /\ dstep' = "loop"
          /\ NoRaise
       \/ /\ Raise("OSError")
          /\ UNCHANGED <<mountdir, dstep, stagelog>>
    /\ UNCHANGED <<step, diskIdx, cur_part, inputs, standalone, libvirt, self_cleanup,
                   self_uuid, host, cmdlog, cleanupCalls>>

\* cleanup() that goes on after a release command has failed
CleanupFailsoft == FALSE

\* cleanup() runs its commands through self.run(cmd): failhard is left at
\* its default
CleanupFailhard == TRUE

\* cleanup() looping over self._cleanup in insertion order
NotReversed(seq) == seq

\* reversed(self._cleanup)
Reversed(seq) == [i \in 1..Len(seq) |-> seq[Len(seq) + 1 - i]]

\* cleanup() that also empties the UUID map
CleanupClearsUuid ==
    /\ pc = "cleanup"
    /\ self_uuid' = EmptyUuid
    /\ \E rc \in ExitCodes :
        /\ Exec(Reversed(self_cleanup)[step], rc)
        /\ IF RunCmdRaises(FALSE, CleanupFailhard, rc)
           THEN /\ Raise("RuntimeError")
                /\ UNCHANGED step
           ELSE /\ step' = step + 1
                /\ pc' = IF step = Len(self_cleanup) THEN "autostart"
                                                     ELSE "cleanup"
                /\ NoRaise
    /\ UNCHANGED <<dstep, diskIdx, cur_part, inputs, standalone, libvirt, mountdir,
                   self_cleanup, stagelog, cleanupCalls>>

\* LinuxProvisioner.cleanup: one turn of the loop over
\* reversed(self._cleanup); after the last turn cleanup() returns and
\* domain.autostart(True) is next
Cleanup ==
    /\ pc = "cleanup"
    /\ \E rc \in ExitCodes :
        /\ Exec(Reversed(self_cleanup)[step], rc)
        /\ IF RunCmdRaises(FALSE, CleanupFailhard, rc)
           THEN /\ Raise("RuntimeError")
                /\ UNCHANGED step
           ELSE /\ step' = step + 1
                /\ pc' = IF step = Len(self_cleanup) THEN "autostart"
                                                     ELSE "cleanup"
                /\ NoRaise
    /\ UNCHANGED <<dstep, diskIdx, cur_part, inputs, standalone, libvirt, mountdir,
                   self_cleanup, self_uuid, stagelog, cleanupCalls>>

\* main() without the domain.start() calls
AfterAutostartNoStart(gt) == "done"

\* what follows domain.autostart(True) in the branch of the guest type:
\* domain.start() for archlinux and ubuntu, the end of main() for plain
AfterAutostart(gt) ==
    IF gt \in {"archlinux", "ubuntu"} THEN "start" ELSE "done"

\* domain.autostart(True)
Autostart ==
    /\ pc = "autostart"
    /\ \/ /\ autostarted' = TRUE
          /\ pc' = AfterAutostart(guesttype)
          /\ NoRaise
       \/ /\ Raise("libvirtError")
          /\ UNCHANGED autostarted
    /\ UNCHANGED <<step, dstep, diskIdx, cur_part, inputs, standalone, defined, started,
                   mountdir, self_cleanup, self_uuid, host, cmdlog, stagelog,
                   cleanupCalls>>

\* domain.start()
Start ==
    /\ pc = "start"
    /\ \/ /\ started' = TRUE
          /\ pc' = "rmdir"
          /\ NoRaise
       \/ /\ Raise("libvirtError")
          /\ UNCHANGED started
    /\ UNCHANGED <<step, dstep, diskIdx, cur_part, inputs, standalone, defined,
                   autostarted, mountdir, self_cleanup, self_uuid, host,
                   cmdlog, stagelog, cleanupCalls>>

\* os.rmdir(args.mountpoint)
Rmdir ==
    /\ pc = "rmdir"
    /\ \/ /\ mountdir' = FALSE
          /\ pc' = "done"
          /\ NoRaise
       \/ /\ Raise("OSError")
          /\ UNCHANGED mountdir
    /\ UNCHANGED <<step, dstep, diskIdx, cur_part, inputs, standalone, libvirt,
                   self_cleanup, self_uuid, host, cmdlog, stagelog,
                   cleanupCalls>>

Next ==
    \/ DomainInit \/ Dispatch \/ Mkdir
    \/ PrepareDisks
    \/ Install \/ NetworkConfig \/ LocaleConfig \/ BootConfig
    \/ AccessConfig
    \/ Cleanup \/ Autostart \/ Start \/ Rmdir

Spec == Init /\ [][Next]_vars

(***************************************************************************)
(* The provisioner used directly: a caller that has defined the domain     *)
(* constructs the provisioner with a target of its choice, which runs the  *)
(* stages, and then calls cleanup().                                       *)
(***************************************************************************)
InitTarget ==
    /\ pc = "prepare_disks"
    /\ step = 0
    /\ dstep = "loop"
    /\ diskIdx = 0
    /\ cur_part = 0
    /\ guesttype \in {"archlinux", "ubuntu"}
    /\ disks \in DiskLists
    /\ networks = <<>>
    /\ password = FALSE
    /\ sshkeys = <<>>
    /\ interfaces = Realized(networks)
    /\ self_target \in ProvisionTargets
    /\ defined = TRUE
    /\ autostarted = FALSE
    /\ started = FALSE
    /\ mountdir = FALSE
    /\ self_cleanup = <<>>
    /\ self_uuid = EmptyUuid
    /\ host = EmptyHost
    /\ cmdlog = <<>>
    /\ stagelog = <<"prepare_disks">>
    /\ cleanupCalls = 0
    /\ failure = "none"
    /\ failedAt = "none"
    /\ StandaloneIdle

NextTarget ==
    \/ PrepareDisks
    \/ Install \/ NetworkConfig \/ LocaleConfig \/ BootConfig
    \/ AccessConfig
    \/ Cleanup

SpecTarget == InitTarget /\ [][NextTarget]_vars

\* ---------------------------------------------------------------------
\* cleanup() called again on the same provisioner, by the caller that
\* constructed it.
\* ---------------------------------------------------------------------

\* the ledger after cleanup() ended: cleanup() only reads self._cleanup
LedgerKept(ledger) == ledger

\* cleanup() has ended, by returning or by the RuntimeError of a release
\* command the caller caught, and the caller calls it again
CleanupAgain ==
    /\ \/ pc = "autostart"
       \/ pc = "failed" /\ failedAt = "cleanup"
    /\ cleanupCalls >= 1
    /\ cleanupCalls < MaxCleanups
    /\ self_cleanup' = LedgerKept(self_cleanup)
    /\ cleanupCalls' = cleanupCalls + 1
    /\ step' = 1
    /\ pc' = IF self_cleanup' = <<>> THEN "autostart" ELSE "cleanup"
    /\ failure' = "none"
    /\ failedAt' = "none"
    /\ UNCHANGED <<dstep, diskIdx, cur_part, inputs, standalone, libvirt,
                   mountdir, self_uuid, host, cmdlog, stagelog>>

NextAgain == NextTarget \/ CleanupAgain

SpecAgain == InitTarget /\ [][NextAgain]_vars

\* ---------------------------------------------------------------------
\* The configuration stages on descriptors with every shape of network
\* and of access: a provisioner constructed on a domain with one root
\* disk and either networks of every shape or access of every shape, or
\* on a domain with any disks and neither networks nor access.
\* ---------------------------------------------------------------------
RootDiskLists ==
    { ds \in DiskLists :
        Len(ds) = 1 /\ ds[1].alias = <<"d", "0">> /\ ds[1].fstype = "ext4"
        /\ ds[1].mountpoint = <<"/">> }

InitConfig ==
    /\ pc = "prepare_disks"
    /\ step = 0
    /\ dstep = "loop"
    /\ diskIdx = 0
    /\ cur_part = 0
    /\ guesttype \in {"archlinux", "ubuntu"}
    /\ \/ /\ disks \in RootDiskLists
          /\ networks \in ConfigNetLists
          /\ password = FALSE
          /\ sshkeys = <<>>
       \/ /\ disks \in RootDiskLists
          /\ networks = <<>>
          /\ password \in BOOLEAN
          /\ sshkeys \in KeyLists
       \/ /\ disks \in DiskLists
          /\ networks = <<>>
          /\ password = FALSE
          /\ sshkeys = <<>>
    /\ interfaces = Realized(networks)
    /\ self_target = DefaultTarget
    /\ defined = TRUE
    /\ autostarted = FALSE
    /\ started = FALSE
    /\ mountdir = FALSE
    /\ self_cleanup = <<>>
    /\ self_uuid = EmptyUuid
    /\ host = EmptyHost
    /\ cmdlog = <<>>
    /\ stagelog = <<"prepare_disks">>
    /\ cleanupCalls = 0
    /\ failure = "none"
    /\ failedAt = "none"
    /\ StandaloneIdle

SpecConfig == InitConfig /\ [][NextTarget]_vars

\* ---------------------------------------------------------------------
\* The network stage when the description libvirt returns has fewer
\* <interface> elements than the descriptor has networks: a provisioner
\* constructed on a domain with one root disk and any number of the
\* interfaces of its networks, or on a domain with any disks and no
\* networks.
\* ---------------------------------------------------------------------
PlainNetLists ==
    { ns \in UNION { [1..n -> { PlainNetwork(x) : x \in NetNames }] :
                       n \in 0..Cardinality(NetNames) } :
        IsSortedNets(ns) }

\* the first k interfaces of the networks, for every k
ReportedInterfaces(ns) ==
    { SubSeq(Realized(ns), 1, k) : k \in 0..Len(ns) }

InitInterfaces ==
    /\ pc = "prepare_disks"
    /\ step = 0
    /\ dstep = "loop"
    /\ diskIdx = 0
    /\ cur_part = 0
    /\ guesttype \in {"archlinux", "ubuntu"}
    /\ \/ /\ disks \in RootDiskLists
          /\ networks \in PlainNetLists
          /\ interfaces \in ReportedInterfaces(networks)
       \/ /\ disks \in DiskLists
          /\ networks = <<>>
          /\ interfaces = <<>>
    /\ password = FALSE
    /\ sshkeys = <<>>
    /\ self_target = DefaultTarget
    /\ defined = TRUE
    /\ autostarted = FALSE
    /\ started = FALSE
    /\ mountdir = FALSE
    /\ self_cleanup = <<>>
    /\ self_uuid = EmptyUuid
    /\ host = EmptyHost
    /\ cmdlog = <<>>
    /\ stagelog = <<"prepare_disks">>
    /\ cleanupCalls = 0
    /\ failure = "none"
    /\ failedAt = "none"
    /\ StandaloneIdle

SpecInterfaces == InitInterfaces /\ [][NextTarget]_vars

\* ---------------------------------------------------------------------
\* Disk preparation on descriptors whose disk aliases are unique and may
\* end in the same digits: a provisioner constructed on a domain with such
\* disks.
\* ---------------------------------------------------------------------
SlotAliasPool == { <<"a", "0">>, <<"d", "0">>, <<"d", "1">> }

SlotDiskSpecs ==
    [alias : SlotAliasPool, fstype : {"ext4"}, mountpoint : Mountpoints]
    \cup [alias : SlotAliasPool, fstype : {"swap"},
          mountpoint : {NoMountpoint}]
    \cup [alias : SlotAliasPool, fstype : FsTypes \ {"ext4", "swap"},
          mountpoint : {<<"/">>}]

SlotDiskLists ==
    { ds \in UNION { [1..n -> SlotDiskSpecs] : n \in 0..MaxDisks } :
        IsSortedDisks(ds) }

InitSlots ==
    /\ pc = "prepare_disks"
    /\ step = 0
    /\ dstep = "loop"
    /\ diskIdx = 0
    /\ cur_part = 0
    /\ guesttype \in {"archlinux", "ubuntu"}
    /\ disks \in SlotDiskLists
    /\ networks = <<>>
    /\ password = FALSE
    /\ sshkeys = <<>>
    /\ interfaces = Realized(networks)
    /\ self_target = DefaultTarget
    /\ defined = TRUE
    /\ autostarted = FALSE
    /\ started = FALSE
    /\ mountdir = FALSE
    /\ self_cleanup = <<>>
    /\ self_uuid = EmptyUuid
    /\ host = EmptyHost
    /\ cmdlog = <<>>
    /\ stagelog = <<"prepare_disks">>
    /\ cleanupCalls = 0
    /\ failure = "none"
    /\ failedAt = "none"
    /\ StandaloneIdle

SpecSlots == InitSlots /\ [][NextTarget]_vars

(***************************************************************************)
(* The fstab code on its own: it is run on a UUID map, and run again.      *)
(***************************************************************************)
FstabMountpoints == { <<"/">>, <<"/", "h">>, <<"/", "v">> }
Ext4Uuids == { Uuid(<<"0">>, 2), Uuid(<<"1">>, 1), Uuid(<<"2">>, 1) }
SwapUuids == { Uuid(<<"3">>, 1), Uuid(<<"4">>, 1), Uuid(<<"1", "0">>, 1) }

\* every filesystem has a UUID of its own
Injective(f) == \A x, y \in DOMAIN f : x # y => f[x] # f[y]

Ext4Maps ==
    { f \in UNION { [S -> Ext4Uuids] : S \in SUBSET FstabMountpoints } :
        Injective(f) }

SwapLists ==
    { l \in UNION { [1..n -> SwapUuids] : n \in 0..MaxSwaps } :
        Injective(l) }

\* the top-level keys in the order setdefault created them
KeyOrders(e, l) ==
    CASE DOMAIN e = {} /\ DOMAIN l = {} -> { <<>> }
      [] DOMAIN e # {} /\ DOMAIN l = {} -> { <<"ext4">> }
      [] DOMAIN e = {} /\ DOMAIN l # {} -> { <<"swap">> }
      [] OTHER -> { <<"ext4", "swap">>, <<"swap", "ext4">> }

\* the values self._uuid can have when _prepare_disks has returned
UuidMaps ==
    UNION { { [keys |-> k, ext4 |-> p[1], swap |-> p[2]] :
                k \in KeyOrders(p[1], p[2]) } :
            p \in Ext4Maps \X SwapLists }

InitFstab ==
    /\ pc = "fstab_config"
    /\ step = 0
    /\ dstep = "none"
    /\ diskIdx = 0
    /\ cur_part = 0
    /\ guesttype \in {"archlinux", "ubuntu"}
    /\ disks = <<>>
    /\ networks = <<>>
    /\ password = FALSE
    /\ sshkeys = <<>>
    /\ interfaces = Realized(networks)
    /\ self_target = DefaultTarget
    /\ defined = TRUE
    /\ autostarted = FALSE
    /\ started = FALSE
    /\ mountdir = TRUE
    /\ self_cleanup = <<>>
    /\ self_uuid \in UuidMaps
    /\ host = EmptyHost
    /\ cmdlog = <<>>
    /\ stagelog = <<>>
    /\ cleanupCalls = 0
    /\ failure = "none"
    /\ failedAt = "none"
    /\ StandaloneIdle

\* the fstab code with the swap UUIDs popped off self._uuid as they are
\* written
FstabConfigConsumesSwap ==
    /\ pc = "fstab_config"
    /\ step < MaxFstabRuns
    /\ \/ /\ host' = AppendFstab(host, self_uuid)
          /\ step' = step + 1
          /\ self_uuid' = [self_uuid EXCEPT !.swap = <<>>]
          /\ UNCHANGED <<pc, failure, failedAt>>
       \/ /\ Raise("OSError")
          /\ UNCHANGED <<step, host, self_uuid>>
    /\ UNCHANGED <<dstep, diskIdx, cur_part, inputs, standalone, libvirt, mountdir,
                   self_cleanup, cmdlog, stagelog, cleanupCalls>>

\* one call of the fstab code: the lines are built from self._uuid and
\* appended to <target>/etc/fstab; open() or write() may raise OSError
FstabConfig ==
    /\ pc = "fstab_config"
    /\ step < MaxFstabRuns
    /\ \/ /\ host' = AppendFstab(host, self_uuid)
          /\ step' = step + 1
          /\ self_uuid' = self_uuid
          /\ UNCHANGED <<pc, failure, failedAt>>
       \/ /\ Raise("OSError")
          /\ UNCHANGED <<step, host, self_uuid>>
    /\ UNCHANGED <<dstep, diskIdx, cur_part, inputs, standalone, libvirt, mountdir,
                   self_cleanup, cmdlog, stagelog, cleanupCalls>>

NextFstab == FstabConfig

SpecFstab == InitFstab /\ [][NextFstab]_vars

(***************************************************************************)
(* One call of run() or runchroot() on a provisioner of either flavor.     *)
(***************************************************************************)
\* the env keyword of the call: absent, or apt_env
CallerEnvs(e) == {NoEnv, AptEnv(e)}

\* the calls that can be made when os.environ is e
CallsIn(e) ==
    [state : {"pending"}, kind : {"run", "runchroot"},
     proxy : Proxies, environ : {e}, env : CallerEnvs(e),
     output : BOOLEAN, failhard : BOOLEAN]

Calls == UNION { CallsIn(e) : e \in Environs }

\* the dict run_env that run() and runchroot() build and assign to: the
\* Arch Linux run() builds it like LinuxProvisioner.run and then leaves it
\* unused
BuiltEnv(flavor, kind, proxy, e, env) ==
    IF flavor = "ubuntu" /\ kind = "runchroot"
    THEN UbuntuRunchroot(proxy, e, env)
    ELSE RunEnv(proxy, e, env)

\* run_env = os.environ, without the copy: the assignments to run_env are
\* assignments to os.environ
EnvironShared(e, run_env) == run_env

\* run_env = os.environ.copy(): the assignments go to the new dict and
\* os.environ keeps its items
EnvironCopied(e, run_env) == e

InitRun ==
    /\ pc = "call"
    /\ step = 0
    /\ dstep = "none"
    /\ diskIdx = 0
    /\ cur_part = 0
    /\ guesttype \in {"archlinux", "ubuntu"}
    /\ disks = <<>>
    /\ networks = <<>>
    /\ password = FALSE
    /\ sshkeys = <<>>
    /\ interfaces = Realized(networks)
    /\ self_target = DefaultTarget
    /\ defined = TRUE
    /\ autostarted = FALSE
    /\ started = FALSE
    /\ mountdir = TRUE
    /\ self_cleanup = <<>>
    /\ self_uuid = EmptyUuid
    /\ host = EmptyHost
    /\ cmdlog = <<>>
    /\ stagelog = <<>>
    /\ cleanupCalls = 0
    /\ failure = "none"
    /\ failedAt = "none"
    /\ os_environ \in Environs
    /\ call \in CallsIn(os_environ)
    /\ dom_xml = <<>>
    /\ dom_last = NoAssignments

\* the call is made: the command is executed with the environment the
\* flavor's run()/runchroot() hand to _runcmd, exits with rc, and _runcmd
\* returns or raises
RunCall ==
    /\ pc = "call"
    /\ call.state = "pending"
    /\ \E rc \in ExitCodes :
          call' = [state |-> "done",
                   args |-> call,
                   execenv |-> ExecEnv(guesttype, call.kind, call.proxy,
                                       os_environ, call.env),
                   rc |-> rc,
                   result |-> RunCmd(call.output, call.failhard, rc)]
    /\ os_environ' = IF call.env = NoEnv
                     THEN EnvironCopied(os_environ,
                                        BuiltEnv(guesttype, call.kind,
                                                 call.proxy, os_environ,
                                                 call.env))
                     ELSE os_environ
    /\ UNCHANGED <<pc, step, dstep, diskIdx, cur_part, inputs, libvirt,
                   mountdir, self_cleanup, self_uuid, host, cmdlog, stagelog,
                   cleanupCalls, failure, failedAt, dom_xml, dom_last>>

\* the caller goes on to its next call of run() or runchroot(), when the
\* call before returned; step counts the calls that returned
NextCall ==
    /\ pc = "call"
    /\ call.state = "done"
    /\ call.result.raised = "none"
    /\ step + 1 < MaxCalls
    /\ step' = step + 1
    /\ call' \in CallsIn(os_environ)
    /\ UNCHANGED <<pc, dstep, diskIdx, cur_part, inputs, libvirt,
                   mountdir, self_cleanup, self_uuid, host, cmdlog, stagelog,
                   cleanupCalls, failure, failedAt, os_environ, dom_xml,
                   dom_last>>

NextRun == RunCall \/ NextCall

SpecRun == InitRun /\ [][NextRun]_vars

(***************************************************************************)
(* Vocabulary of the properties.                                           *)
(***************************************************************************)
PipelineStages ==
    {"prepare_disks", "install", "network_config", "locale_config",
     "boot_config", "access_config"}

(***************************************************************************)
(* LibvirtDomain taken on its own: the object after its constructor, and   *)
(* assignments to its memory, vcpu and name in any order.                  *)
(***************************************************************************)
MemoryValues == {512, 1024, 2048}          \* megabytes
VcpuValues == {1, 2, 4}
DomainNames == {"vm1.example.org", "vm2.example.org"}

\* a child of the <domain> element: a number or a string as its text
Element(tag, num, text) == [tag |-> tag, num |-> num, text |-> text]

\* self._xml.find(tag): the index of the first child with the tag, 0 for
\* None
Find(xml, tag) ==
    IF \E i \in DOMAIN xml : xml[i].tag = tag
    THEN CHOOSE i \in DOMAIN xml :
            /\ xml[i].tag = tag
            /\ \A j \in 1..(i - 1) : xml[j].tag # tag
    ELSE 0

\* a setter that appends a new element at every assignment
SetTextAppends(xml, tag, num, text) == Append(xml, Element(tag, num, text))

\* the body the setters share: the text of the element found is replaced,
\* or a new element with the text is appended
SetText(xml, tag, num, text) ==
    IF Find(xml, tag) # 0
    THEN [xml EXCEPT ![Find(xml, tag)] = Element(tag, num, text)]
    ELSE Append(xml, Element(tag, num, text))

\* LibvirtDomain.memory = value: <memory> and <currentMemory> get
\* str(int(value) * 1024)
MemorySetter(xml, value) ==
    SetText(SetText(xml, "memory", value * 1024, ""),
            "currentMemory", value * 1024, "")

\* LibvirtDomain.vcpu = value: <vcpu> gets str(value)
VcpuSetter(xml, value) == SetText(xml, "vcpu", value, "")

\* LibvirtDomain.name = value: <name> gets value
NameSetter(xml, value) == SetText(xml, "name", 0, value)

Assigned(num, text) == [set |-> TRUE, value |-> num, text |-> text]

\* LibvirtDomain(name): the constructor assigns the name
InitDomain ==
    /\ pc = "LibvirtDomain"
    /\ step = 0
    /\ dstep = "none"
    /\ diskIdx = 0
    /\ cur_part = 0
    /\ guesttype = "plain"
    /\ disks = <<>>
    /\ networks = <<>>
    /\ password = FALSE
    /\ sshkeys = <<>>
    /\ interfaces = <<>>
    /\ self_target = DefaultTarget
    /\ defined = FALSE
    /\ autostarted = FALSE
    /\ started = FALSE
    /\ mountdir = FALSE
    /\ self_cleanup = <<>>
    /\ self_uuid = EmptyUuid
    /\ host = EmptyHost
    /\ cmdlog = <<>>
    /\ stagelog = <<>>
    /\ cleanupCalls = 0
    /\ failure = "none"
    /\ failedAt = "none"
    /\ call = NoCall
    /\ os_environ = AmbientEnviron
    /\ \E n \in DomainNames :
         /\ dom_xml = NameSetter(<<>>, n)
         /\ dom_last = [NoAssignments EXCEPT !.name = Assigned(0, n)]

\* what an assignment to an attribute of the domain leaves alone; step
\* counts the assignments
AssignmentFrame ==
    /\ pc = "LibvirtDomain"
    /\ step < MaxAssignments
    /\ step' = step + 1
    /\ UNCHANGED <<pc, dstep, diskIdx, cur_part, inputs, libvirt, mountdir,
                   self_cleanup, self_uuid, host, cmdlog, stagelog,
                   cleanupCalls, failure, failedAt, call, os_environ>>

SetMemory ==
    /\ AssignmentFrame
    /\ \E v \in MemoryValues :
         /\ dom_xml' = MemorySetter(dom_xml, v)
         /\ dom_last' = [dom_last EXCEPT !.memory = Assigned(v, "")]

SetVcpu ==
    /\ AssignmentFrame
    /\ \E v \in VcpuValues :
         /\ dom_xml' = VcpuSetter(dom_xml, v)
         /\ dom_last' = [dom_last EXCEPT !.vcpu = Assigned(v, "")]

SetName ==
    /\ AssignmentFrame
    /\ \E n \in DomainNames :
         /\ dom_xml' = NameSetter(dom_xml, n)
         /\ dom_last' = [dom_last EXCEPT !.name = Assigned(0, n)]

\* the descriptions assigned to LibvirtDomain.xml: what libvirt returns for
\* a defined domain, with at most one element for each attribute
XmlDocuments ==
    { [root |-> "domain",
       children |-> <<Element("name", 0, n), Element("vcpu", v, "")>>] :
         n \in DomainNames, v \in VcpuValues }
    \cup
    { [root |-> "domain",
       children |-> <<Element("name", 0, n),
                      Element("memory", 1024 * m, ""),
                      Element("currentMemory", 1024 * m, ""),
                      Element("vcpu", v, "")>>] :
         n \in DomainNames, m \in MemoryValues, v \in VcpuValues }

\* ElementTree.fromstring(value): the root element with its children
FromString(document) == document.children

\* LibvirtDomain.xml = value: the tree is replaced as a whole; no attribute
\* has been assigned on the new tree
SetXml ==
    /\ AssignmentFrame
    /\ \E document \in XmlDocuments :
         /\ dom_xml' = FromString(document)
         /\ dom_last' = NoAssignments

NextDomain == SetMemory \/ SetVcpu \/ SetName \/ SetXml

SpecDomain == InitDomain /\ [][NextDomain]_vars

(***************************************************************************)
(* The methods of a constructed Domain that change the state libvirt keeps *)
(* of it, called in any order.                                             *)
(***************************************************************************)
InitLifecycle ==
    /\ pc = "Domain.methods"
    /\ step = 0
    /\ dstep = "none"
    /\ diskIdx = 0
    /\ cur_part = 0
    /\ guesttype \in GuestTypes
    /\ disks = <<>>
    /\ networks = <<>>
    /\ password = FALSE
    /\ sshkeys = <<>>
    /\ interfaces = <<>>
    /\ self_target = DefaultTarget
    /\ defined = TRUE
    /\ autostarted = FALSE
    /\ started = FALSE
    /\ mountdir = FALSE
    /\ self_cleanup = <<>>
    /\ self_uuid = EmptyUuid
    /\ host = EmptyHost
    /\ cmdlog = <<>>
    /\ stagelog = <<>>
    /\ cleanupCalls = 0
    /\ failure = "none"
    /\ failedAt = "none"
    /\ StandaloneIdle

\* what a method of the Domain leaves alone
MethodFrame ==
    /\ pc = "Domain.methods"
    /\ UNCHANGED <<step, dstep, diskIdx, cur_part, inputs, standalone,
                   defined, mountdir, self_cleanup, self_uuid, host, cmdlog,
                   stagelog, cleanupCalls>>

\* Domain.start(): lookupByName, domain.create()
DomainStart ==
    /\ MethodFrame
    /\ \/ /\ started' = TRUE
          /\ UNCHANGED pc
          /\ NoRaise
       \/ /\ Raise("libvirtError")
          /\ UNCHANGED started
    /\ UNCHANGED autostarted

\* Domain.stop(): lookupByName, domain.destroy()
DomainStop ==
    /\ MethodFrame
    /\ \/ /\ started' = FALSE
          /\ UNCHANGED pc
          /\ NoRaise
       \/ /\ Raise("libvirtError")
          /\ UNCHANGED started
    /\ UNCHANGED autostarted

\* Domain.autostart(autostart): lookupByName, domain.setAutostart(autostart)
DomainAutostart ==
    /\ MethodFrame
    /\ \/ /\ \E autostart \in BOOLEAN : autostarted' = autostart
          /\ UNCHANGED pc
          /\ NoRaise
       \/ /\ Raise("libvirtError")
          /\ UNCHANGED autostarted
    /\ UNCHANGED started

NextLifecycle == DomainStart \/ DomainStop \/ DomainAutostart

SpecLifecycle == InitLifecycle /\ [][NextLifecycle]_vars

\* the run ended with an exception raised by a pipeline stage
StageFailed == pc = "failed" /\ failedAt \in PipelineStages

\* the commands cleanup() has run, in the order it ran them
ReleaseLog == SelectSeq(cmdlog, LAMBDA e : e.stage = "cleanup")

\* a command that acquires a host resource
IsAcquire(cmd) ==
    \/ cmd.tool = "qemu-nbd" /\ cmd.op = "-c"
    \/ cmd.tool = "mount"
    \/ cmd.tool = "swapon"

\* the acquisitions that succeeded, in the order they were made
Acquired ==
    SelectSeq(cmdlog, LAMBDA e : IsAcquire(e.cmd) /\ e.rc = 0)

\* the command that gives back what cmd acquired
Inverse(cmd) ==
    CASE cmd.tool = "qemu-nbd" -> Cmd("qemu-nbd", "-d", cmd.dev, 0, NoPath)
      [] cmd.tool = "mount" -> Cmd("umount", "", NoDev, 0, cmd.path)
      [] cmd.tool = "swapon" -> Cmd("swapoff", "", cmd.dev, cmd.part, NoPath)

\* one inverse per successful acquisition, in acquisition order
ExpectedLedger == [i \in 1..Len(Acquired) |-> Inverse(Acquired[i].cmd)]

(***************************************************************************)
(* C1.  If a pipeline stage raises, cleanup() runs exactly once before     *)
(* the failure reaches the caller, so every resource acquired before the   *)
(* failure is released exactly once.  main() has no handler around the     *)
(* provisioner's constructor: the statement is violated.                   *)
(***************************************************************************)
C1_CleanupOnStageFailure ==
    StageFailed =>
        /\ cleanupCalls = 1
        /\ Len(ReleaseLog) = Len(Acquired)
        /\ \A i \in 1..Len(Acquired) :
              \E j \in 1..Len(ReleaseLog) :
                  ReleaseLog[j].cmd = Inverse(Acquired[i].cmd)

(***************************************************************************)
(* C2.  During cleanup() a command that exits non-zero neither aborts the  *)
(* unwind nor is raised: every recorded cleanup command is still run.      *)
(* cleanup() runs its commands with failhard at its default, True: the     *)
(* statement is violated.                                                  *)
(***************************************************************************)
C2_CleanupIsBestEffort ==
    /\ failedAt # "cleanup"
    /\ (cleanupCalls > 0 /\ pc # "cleanup") =>
           Len(ReleaseLog) = Len(self_cleanup)

(***************************************************************************)
(* C3.  In every successful run cleanup() runs exactly one inverse command *)
(* per acquisition made during disk preparation, in the reverse of the     *)
(* acquisition order: the first attached device is detached last.          *)
(***************************************************************************)
C3_ReleaseIsLifo ==
    pc = "done" =>
        /\ Len(ReleaseLog) = Len(Acquired)
        /\ \A i \in 1..Len(ReleaseLog) :
              /\ ReleaseLog[i].cmd
                    = Inverse(Acquired[Len(Acquired) + 1 - i].cmd)
              /\ ReleaseLog[i].rc = 0

\* a successful run that attached two disks and released four resources,
\* the detach of the first attached device last
C3_Witness ==
    /\ pc = "done"
    /\ Len(Acquired) = 4
    /\ Acquired[1].cmd.tool = "qemu-nbd"
    /\ ReleaseLog[4].cmd = Cmd("qemu-nbd", "-d", Acquired[1].cmd.dev, 0, NoPath)

(***************************************************************************)
(* C4.  At every point of disk preparation self._cleanup holds exactly one *)
(* cleanup command for each acquisition that has succeeded so far, in      *)
(* acquisition order, and none for an acquisition that failed or was not   *)
(* made; the detach is there as soon as the attach has succeeded, before   *)
(* the next command runs.                                                  *)
(***************************************************************************)
C4_LedgerMatchesAcquisitions ==
    (pc = "prepare_disks" \/ failedAt = "prepare_disks") =>
        self_cleanup = ExpectedLedger

\* disk preparation has attached a second disk after mounting the first:
\* the ledger holds detach, umount, detach and the partition table of the
\* second disk has not been written yet
C4_Witness ==
    /\ pc = "prepare_disks"
    /\ dstep = "table"
    /\ Len(self_cleanup) = 3
    /\ self_cleanup[3] = Cmd("qemu-nbd", "-d", Dev, 0, NoPath)
    /\ cmdlog[Len(cmdlog)].cmd = Cmd("qemu-nbd", "-c", Dev, 0, NoPath)

(***************************************************************************)
(* C5.  For archlinux and ubuntu the stages run in the order disk          *)
(* preparation, install, network config, locale config, fstab/boot config, *)
(* access config; a stage starts only after the one before it completed    *)
(* without failure, and no stage runs twice.                               *)
(***************************************************************************)
StageOrder ==
    <<"prepare_disks", "install", "network_config", "locale_config",
      "boot_config", "access_config">>

C5_StagesInOrder ==
    /\ Len(stagelog) <= Len(StageOrder)
    /\ \A i \in 1..Len(stagelog) : stagelog[i] = StageOrder[i]
    \* a stage that is not the last one called has run without failure
    /\ \A i \in 1..Len(cmdlog) :
          (cmdlog[i].stage \in PipelineStages /\ cmdlog[i].rc # 0) =>
              cmdlog[i].stage = stagelog[Len(stagelog)]
    /\ (pc = "failed" /\ failedAt \in PipelineStages) =>
          failedAt = stagelog[Len(stagelog)]
    \* disk preparation completed: every disk was attached
    /\ Len(stagelog) >= 2 =>
          Len(SelectSeq(Acquired, LAMBDA e : e.cmd.tool = "qemu-nbd"))
            = Len(disks)
    /\ pc \in PipelineStages => pc = stagelog[Len(stagelog)]
    /\ (pc = "done" /\ guesttype \in {"archlinux", "ubuntu"}) =>
          stagelog = StageOrder

\* a disk-backed run that went through all six stages
C5_Witness ==
    /\ pc = "done"
    /\ guesttype = "ubuntu"
    /\ stagelog = StageOrder
    /\ Len(disks) = 2

(***************************************************************************)
(* C6.  When a run fails at stage k, no command of a later stage is run    *)
(* and no host resource is acquired after the failing command.             *)
(***************************************************************************)
StagePos(s) == CHOOSE i \in 1..Len(StageOrder) : StageOrder[i] = s

C6_NothingAfterFailure ==
    \* a stage command that exits non-zero is the last command of the run
    /\ [](\A i \in 1..Len(cmdlog) :
             (cmdlog[i].stage \in PipelineStages /\ cmdlog[i].rc # 0) =>
                 /\ i = Len(cmdlog)
                 /\ pc = "failed"
                 /\ failedAt = cmdlog[i].stage)
    \* no command of a later stage has run, and none was called
    /\ [](StageFailed =>
             /\ \A i \in 1..Len(cmdlog) :
                   /\ cmdlog[i].stage \in PipelineStages
                   /\ StagePos(cmdlog[i].stage) <= StagePos(failedAt)
             /\ Len(stagelog) = StagePos(failedAt))
    \* after the failure no command runs and the host does not change
    /\ [][pc = "failed" => UNCHANGED <<cmdlog, host, stagelog>>]_vars

\* a run that failed in the install stage with a device attached and a
\* filesystem mounted
C6_Witness ==
    /\ pc = "failed"
    /\ failedAt = "install"
    /\ cmdlog[Len(cmdlog)].rc # 0
    /\ Len(host.mounts) = 1

(***************************************************************************)
(* C7.  On success the guest is set to autostart and, for archlinux and    *)
(* ubuntu, then started; neither happens in a run in which a stage failed. *)
(***************************************************************************)
C7_AutostartAndStartOnSuccess ==
    /\ pc = "done" =>
          /\ autostarted
          /\ guesttype \in {"archlinux", "ubuntu"} => started
    /\ started => autostarted
    /\ StageFailed => ~autostarted /\ ~started

\* a successful ubuntu run: set to autostart and started
C7_Witness ==
    /\ pc = "done"
    /\ guesttype = "ubuntu"
    /\ autostarted
    /\ started

(***************************************************************************)
(* C8.  When a run ends with the failure of a stage, the guest is defined  *)
(* but not started, and the host resources the run acquired are back in    *)
(* their pre-run state whenever every cleanup command succeeded.  No       *)
(* cleanup command runs after a stage failure (see C1): the resources stay *)
(* acquired and the statement is violated.                                 *)
(***************************************************************************)
C8_FailedRunLeavesHostClean ==
    StageFailed =>
        /\ defined
        /\ ~started
        /\ (\A i \in 1..Len(ReleaseLog) : ReleaseLog[i].rc = 0) =>
              /\ host.attached = <<>>
              /\ host.mounts = <<>>
              /\ host.swaps = <<>>

(***************************************************************************)
(* C9.  For the plain guest type no stage runs, no host command is run,    *)
(* nothing is recorded for cleanup, the guest is set to autostart and is   *)
(* not started.                                                            *)
(***************************************************************************)
C9_PlainDoesNothing ==
    guesttype = "plain" =>
        /\ stagelog = <<>>
        /\ cmdlog = <<>>
        /\ self_cleanup = <<>>
        /\ host = EmptyHost
        /\ ~mountdir
        /\ ~started
        /\ pc = "done" => autostarted
        /\ pc \in {"Domain", "dispatch", "autostart", "done", "failed"}
        /\ pc = "failed" => failure = "libvirtError"

\* a finished plain run for a descriptor that lists disks
C9_Witness ==
    /\ guesttype = "plain"
    /\ pc = "done"
    /\ autostarted
    /\ Len(disks) = 2

(***************************************************************************)
(* C10.  A guest type other than archlinux, ubuntu and plain makes the run *)
(* fail with the unsupported-guest-type error; no stage runs, no host      *)
(* resource is acquired, the guest is neither set to autostart nor         *)
(* started.                                                                *)
(***************************************************************************)
C10_UnsupportedGuestType ==
    guesttype \notin {"archlinux", "ubuntu", "plain"} =>
        /\ stagelog = <<>>
        /\ cmdlog = <<>>
        /\ host = EmptyHost
        /\ ~mountdir
        /\ ~autostarted
        /\ ~started
        /\ pc \in {"Domain", "dispatch", "failed"}
        /\ pc = "failed" =>
              \/ failure = "libvirtError" /\ failedAt = "Domain"
              \/ /\ failure = "UnsupportedGuestType"
                 /\ failedAt = "dispatch"
                 /\ defined

\* the run of a descriptor with guest type bsd has failed in main()
C10_Witness ==
    /\ guesttype = "bsd"
    /\ pc = "failed"
    /\ failure = "UnsupportedGuestType"
    /\ defined

(***************************************************************************)
(* Vocabulary of the disk-preparation properties.                          *)
(***************************************************************************)
\* disk preparation returned: the constructor went on to the next stage
PrepareDisksCompleted == Len(stagelog) >= 2

\* the sgdisk invocations that create a partition
BiosBootOp == "-n:2048:4095 -t:ef02"
RestOfDiskOp == "-n:4096:endsector"
WholeDiskOp == "-n"
PartitionOps == {BiosBootOp, RestOfDiskOp, WholeDiskOp}

\* the partitions created on device dev, in creation order
PartitionsCreated(dev) ==
    SelectSeq(cmdlog, LAMBDA e :
        /\ e.cmd.tool = "sgdisk"
        /\ e.cmd.op \in PartitionOps
        /\ e.cmd.dev = dev
        /\ e.rc = 0)

(***************************************************************************)
(* C11.  When disk preparation has completed, the disk with index "0"      *)
(* carries exactly two partitions, partition 1 the BIOS boot partition on  *)
(* sectors 2048-4095 and partition 2 from sector 4096 to the end of the    *)
(* disk, and every other disk carries exactly one partition, numbered 1,   *)
(* that spans the disk.                                                    *)
(***************************************************************************)
C11_PartitionLayout ==
    PrepareDisksCompleted =>
        \A i \in 1..Len(disks) :
            LET dev == Number(disks[i].alias)
                parts == PartitionsCreated(dev)
            IN  IF dev = <<"0">>
                THEN /\ Len(parts) = 2
                     /\ parts[1].cmd.op = BiosBootOp
                     /\ parts[1].cmd.part = 1
                     /\ parts[2].cmd.op = RestOfDiskOp
                     /\ parts[2].cmd.part = 2
                ELSE /\ Len(parts) = 1
                     /\ parts[1].cmd.op = WholeDiskOp
                     /\ parts[1].cmd.part = 1

\* preparation completed for the disk with index "0" and one more disk
C11_Witness ==
    /\ PrepareDisksCompleted
    /\ Len(disks) = 2
    /\ \E i \in 1..2 : Number(disks[i].alias) = <<"0">>
    /\ \E i \in 1..2 : Number(disks[i].alias) # <<"0">>

(***************************************************************************)
(* C12.  A disk whose filesystem type is neither ext4 nor swap makes disk  *)
(* preparation fail with the unsupported-filesystem error before any       *)
(* partitioning command is issued for that disk.  _prepare_disks tests     *)
(* disk.fstype only after it has attached the image, wiped the partition   *)
(* table and created the partitions: the statement is violated.            *)
(***************************************************************************)
C12_UnsupportedFstypeBeforePartitioning ==
    failure = "UnsupportedFstype" =>
        \A i \in 1..Len(cmdlog) :
            ~(cmdlog[i].cmd.tool = "sgdisk" /\ cmdlog[i].cmd.dev = Dev)

\* the images attached so far, in the order they were attached
AttachLog ==
    SelectSeq(cmdlog, LAMBDA e : e.cmd.tool = "qemu-nbd" /\ e.cmd.op = "-c")

\* the number a string of decimal digits denotes
RECURSIVE NumVal(_)
NumVal(ds) ==
    IF ds = <<>> THEN 0
    ELSE 10 * NumVal(SubSeq(ds, 1, Len(ds) - 1))
         + (Ord(ds[Len(ds)]) - Ord("0"))

(***************************************************************************)
(* C13.  Whatever the (unique) aliases of the disks, each ending in a      *)
(* decimal numeral, if one of them has index "0" then that disk is the     *)
(* first one disk preparation processes.  The disks are processed in the   *)
(* order of their alias strings, so an alias with a smaller prefix comes   *)
(* before the disk with index "0": the statement is violated.              *)
(***************************************************************************)
C13_IndexZeroFirst ==
    ((\E i \in 1..Len(disks) : Number(disks[i].alias) = <<"0">>)
        /\ AttachLog # <<>>)
    => AttachLog[1].cmd.dev = <<"0">>

(***************************************************************************)
(* C14.  The disks are processed in ascending order of the numeric index   *)
(* their alias ends in (disk2 before disk10).  The order is the order of   *)
(* the alias strings, in which "d10" is smaller than "d2": the statement   *)
(* is violated.                                                            *)
(***************************************************************************)
C14_AscendingNumericOrder ==
    \A i, j \in 1..Len(AttachLog) :
        i < j => NumVal(AttachLog[i].cmd.dev) < NumVal(AttachLog[j].cmd.dev)

\* the i-th disk has been through the whole body of the loop
Prepared(i) ==
    \/ i < diskIdx
    \/ i = diskIdx /\ (dstep = "loop" \/ PrepareDisksCompleted)

\* the partition of device dev an ext4 filesystem was made on
Ext4Partition(dev) ==
    LET made == SelectSeq(cmdlog, LAMBDA e :
                    e.cmd.tool = "mkfs.ext4" /\ e.cmd.dev = dev /\ e.rc = 0)
    IN  made[1].cmd.part

\* the label ROOTFS was set on partition part of device dev
Labelled(dev, part) ==
    \E k \in 1..Len(cmdlog) :
        /\ cmdlog[k].cmd = Cmd("tune2fs", "-L ROOTFS", dev, part, NoPath)
        /\ cmdlog[k].rc = 0

\* os.makedirs created path
DirCreated(path) == \E k \in 1..Len(host.dirs) : host.dirs[k] = path

TargetPath(root, mountpoint) == <<root, "/">> \o LStripSlash(mountpoint)

(***************************************************************************)
(* C16.  Whatever target root the provisioner was constructed with, an     *)
(* ext4 partition is mounted at <target-root>/<mountpoint>, and once the   *)
(* mount has succeeded the ledger holds the unmount of that same path      *)
(* (pushed before the UUID is read).  _prepare_disks builds the path from  *)
(* the literal '/provision' and never reads self.target: for any other     *)
(* target the statement is violated.                                       *)
(***************************************************************************)
C16_MountedBelowTarget ==
    \A k \in 1..Len(cmdlog) :
        cmdlog[k].cmd.tool = "mount" =>
            \E i \in 1..Len(disks) :
                LET path == TargetPath(self_target, disks[i].mountpoint) IN
                /\ disks[i].fstype = "ext4"
                /\ Number(disks[i].alias) = cmdlog[k].cmd.dev
                /\ cmdlog[k].cmd.path = path
                /\ cmdlog[k].rc = 0 =>
                      \E j \in 1..Len(self_cleanup) :
                          self_cleanup[j] = Cmd("umount", "", NoDev, 0, path)

(***************************************************************************)
(* C17.  When disk preparation has completed for a descriptor with at      *)
(* least one ext4 disk, the ext4 map of self._uuid has the key "/", so the *)
(* root= rewrite of the boot stage finds a root UUID.  Nothing requires an *)
(* ext4 disk to be mounted at "/": for a descriptor whose ext4 disks all   *)
(* have another mountpoint the statement is violated.                      *)
(***************************************************************************)
C17_RootUuidPresent ==
    (PrepareDisksCompleted
        /\ \E i \in 1..Len(disks) : disks[i].fstype = "ext4")
    => /\ <<"/">> \in DOMAIN self_uuid.ext4
       /\ failure # "KeyError"

(***************************************************************************)
(* Vocabulary of the fstab properties.  host.fstab holds one block of      *)
(* lines per write of the fstab code.                                      *)
(***************************************************************************)
\* the fstab entries of a block: its lines but the empty ones
Entries(block) == SelectSeq(block, LAMBDA l : l # BlankLine)
Ext4Entries(block) == SelectSeq(block, LAMBDA l : l.fstype = "ext4")
SwapEntries(block) == SelectSeq(block, LAMBDA l : l.fstype = "swap")

(***************************************************************************)
(* C18.  In the fstab lines generated from any UUID map the ext4 entries   *)
(* carry the fsck pass numbers 1, 2, 3, ... in ascending order of their    *)
(* mountpoints, and every swap entry carries fsck pass 0.                  *)
(***************************************************************************)
C18_FsckPassNumbers ==
    \A b \in 1..Len(host.fstab) :
        LET ext4 == Ext4Entries(host.fstab[b])
            swap == SwapEntries(host.fstab[b])
        IN  /\ \A i \in 1..Len(ext4) : ext4[i].pass = i
            /\ \A i \in 1..(Len(ext4) - 1) :
                  StrLess(ext4[i].dir, ext4[i + 1].dir)
            /\ \A i \in 1..Len(swap) : swap[i].pass = 0

\* lines were generated from a map with three ext4 mountpoints and swap
C18_Witness ==
    /\ Len(host.fstab) >= 1
    /\ Len(Ext4Entries(host.fstab[1])) = 3
    /\ Len(SwapEntries(host.fstab[1])) >= 1

(***************************************************************************)
(* C19.  The fstab lines appended are exactly one line per ext4 mountpoint *)
(* of the UUID map, each with the UUID recorded for it, followed by        *)
(* exactly one line per swap UUID: every ext4 line comes before every swap *)
(* line, whatever the order in which the ext4 and swap keys of the map     *)
(* were created.                                                           *)
(***************************************************************************)
C19_Ext4LinesThenSwapLines ==
    \A b \in 1..Len(host.fstab) :
        LET es == Entries(host.fstab[b])
            n == Cardinality(DOMAIN self_uuid.ext4)
            m == Len(self_uuid.swap)
        IN  /\ Len(es) = n + m
            /\ \A i \in 1..n :
                  /\ es[i].fstype = "ext4"
                  /\ es[i].dir \in DOMAIN self_uuid.ext4
                  /\ es[i].uuid = self_uuid.ext4[es[i].dir]
                  /\ \A j \in 1..n : i # j => es[i].dir # es[j].dir
            /\ \A j \in 1..m :
                  /\ es[n + j].fstype = "swap"
                  /\ es[n + j].uuid = self_uuid.swap[j]

\* lines were generated from a map whose swap key was created first
C19_Witness ==
    /\ Len(host.fstab) >= 1
    /\ self_uuid.keys = <<"swap", "ext4">>
    /\ Len(self_uuid.swap) = 2
    /\ Cardinality(DOMAIN self_uuid.ext4) = 2

\* the UUID maps equal to u as dicts: the same entries, with the top-level
\* keys created in any order
SameUuidMap(u) ==
    { [u EXCEPT !.keys = k] : k \in KeyOrders(u.ext4, u.swap) }

(***************************************************************************)
(* C20.  The fstab lines are a function of the UUID map alone: every block *)
(* of lines generated is the block generated from any map with the same    *)
(* entries, in whatever order its ext4 and swap keys were created, so      *)
(* generating the lines again gives the same lines; and generating them    *)
(* leaves the UUID map as it was.                                          *)
(***************************************************************************)
C20_FstabGenerationRepeatable ==
    /\ [](\A b \in 1..Len(host.fstab) :
            /\ host.fstab[b] = host.fstab[1]
            /\ \A v \in SameUuidMap(self_uuid) :
                  host.fstab[b] = WriteFile(FstabLines(v)))
    /\ [][pc = "fstab_config" => self_uuid' = self_uuid]_vars

\* the lines were generated twice from a map with ext4 and swap entries,
\* whose keys can have been created in two orders
C20_Witness ==
    /\ pc = "fstab_config"
    /\ Len(host.fstab) = 2
    /\ Cardinality(SameUuidMap(self_uuid)) = 2
    /\ Len(self_uuid.swap) >= 1
    /\ Cardinality(DOMAIN self_uuid.ext4) >= 2

(***************************************************************************)
(* Vocabulary of the properties of a single call.                          *)
(***************************************************************************)
CallDone == call.state = "done"

(***************************************************************************)
(* C21.  A command run with output capture that exits non-zero ends in an  *)
(* exception whatever the fail-hard flag is, and nothing is returned to    *)
(* the caller.                                                             *)
(***************************************************************************)
C21_CapturedFailureIsHard ==
    (CallDone /\ call.args.output /\ call.rc # 0) =>
        /\ call.result.raised # "none"
        /\ call.result.rval.kind = "none"

\* a captured command called with failhard=False has exited non-zero
C21_Witness ==
    /\ CallDone
    /\ call.args.output
    /\ ~call.args.failhard
    /\ call.rc # 0

(***************************************************************************)
(* C22.  A command run without output capture raises if and only if it     *)
(* exits non-zero and fail-hard is true; otherwise its exit code is        *)
(* returned to the caller: the non-zero code when fail-hard is false, 0    *)
(* after a zero exit.                                                      *)
(***************************************************************************)
C22_UncapturedFailureFollowsFailhard ==
    (CallDone /\ ~call.args.output) =>
        /\ call.result.raised # "none"
              <=> (call.rc # 0 /\ call.args.failhard)
        /\ call.result.raised = "none" =>
              call.result.rval = [kind |-> "code", code |-> call.rc]

\* an uncaptured command called with failhard=False has exited non-zero
\* and its exit code was returned
C22_Witness ==
    /\ CallDone
    /\ ~call.args.output
    /\ ~call.args.failhard
    /\ call.rc # 0
    /\ call.result.rval.code = call.rc

\* os.environ plus http_proxy and ftp_proxy set to the proxy
WithProxy(environ, proxy) ==
    EnvSet(EnvSet(environ, "http_proxy", <<"http://", proxy>>),
           "ftp_proxy", <<"http://", proxy>>)

(***************************************************************************)
(* C23.  With a proxy configured every non-chroot command is executed with *)
(* the ambient environment plus http_proxy and ftp_proxy set to the proxy; *)
(* with no proxy neither variable is added.  ArchlinuxProvisioner.run      *)
(* builds that environment and then calls _runcmd without it: the commands *)
(* of the Arch Linux flavor run without the proxy variables and the        *)
(* statement is violated.                                                  *)
(***************************************************************************)
C23_ProxyInEnvironment ==
    (CallDone /\ call.args.kind = "run" /\ call.args.env = NoEnv) =>
        IF call.args.proxy # NoProxy
        THEN call.execenv = WithProxy(call.args.environ, call.args.proxy)
        ELSE call.execenv = call.args.environ

(***************************************************************************)
(* C24.  Every command executed in the chroot of the target runs with PATH *)
(* equal to the fixed value and with the extra variables its caller        *)
(* supplied, whatever PATH the ambient environment holds, in every flavor. *)
(* ArchlinuxProvisioner.runchroot sets no PATH and its run() drops the     *)
(* env keyword: the chroot commands of the Arch Linux flavor run with the  *)
(* ambient PATH and the statement is violated.                             *)
(***************************************************************************)
C24_ChrootPathFixed ==
    (CallDone /\ call.args.kind = "runchroot") =>
        /\ call.execenv["PATH"] = FixedPath
        /\ \A n \in DOMAIN call.args.env \ {"PATH"} :
              /\ n \in DOMAIN call.execenv
              /\ call.execenv[n] = call.args.env[n]

\* the writes of the file path below the target, in order
Writes(path) == SelectSeq(host.files, LAMBDA f : f.path = path)

HostsPath == <<"/etc/hosts">>
UdevRulesPath == <<"/etc/udev/rules.d/10-network.rules">>
ResolvconfPaths == { <<"/etc/resolvconf/resolv.conf.d/original">>,
                     <<"/etc/resolvconf/resolv.conf.d/tail">> }
AuthorizedKeysPath == <<"/root/.ssh/authorized_keys">>

\* the addresses the networks of the domain realize
RealizedAddresses ==
    { networks[i].ipv4.address :
        i \in { j \in DOMAIN networks : networks[j].ipv4.address # <<>> } }
    \cup { networks[i].ipv6.address :
        i \in { j \in DOMAIN networks : networks[j].ipv6.address # <<>> } }

\* the networks whose interface realized a MAC address
WithMac == { i \in DOMAIN networks : networks[i].mac # NoMac }

\* a network without addressing
Unaddressed(n) == n.ipv4.address = <<>> /\ n.ipv6.address = <<>>

\* the number of lines of ls that satisfy Test
Count(ls, Test(_)) == Cardinality({ k \in DOMAIN ls : Test(ls[k]) })

\* what the files of the network stage hold when they are written:
\* /etc/hosts the two loopback lines and one line per realized address, the
\* udev rules one rule per interface with a MAC address
HostsAndUdevContent ==
    /\ \A w \in DOMAIN Writes(HostsPath) :
         LET ls == Writes(HostsPath)[w].lines IN
         /\ Len(ls) = 2 + Cardinality(RealizedAddresses)
         /\ ls[1].address = <<"127.0.0.1">>
         /\ ls[2].address = <<"::1">>
         /\ \A a \in RealizedAddresses :
              \E k \in 3..Len(ls) : ls[k].address = a
    /\ \A w \in DOMAIN Writes(UdevRulesPath) :
         LET ls == Writes(UdevRulesPath)[w].lines IN
         /\ Len(ls) = Cardinality(WithMac)
         /\ \A i \in WithMac :
              \E k \in DOMAIN ls :
                 /\ ls[k].mac = networks[i].mac
                 /\ ls[k].name = networks[i].name

\* _network_config was left by an AttributeError of its own expressions
NetworkConfigBroke ==
    /\ pc = "failed"
    /\ failedAt = "network_config"
    /\ failure = "AttributeError"

(***************************************************************************)
(* C25.  The network stage writes /etc/hosts with the two loopback lines   *)
(* followed by exactly one line for each IPv4 or IPv6 address a network    *)
(* realizes, and by no other line, and the udev rules file with exactly    *)
(* one naming rule for every interface that has a MAC address, whether or  *)
(* not its network has an address: when every interface has a MAC address  *)
(* the stage does not break off before it has written them.  What the      *)
(* stage writes is as stated, but the Ubuntu stage evaluates               *)
(* network.interfaces, which LibvirtNetwork does not have, in the first    *)
(* turn of its loop and writes neither file: the statement is violated.    *)
(***************************************************************************)
C25_HostsAndUdevLines ==
    /\ HostsAndUdevContent
    /\ (WithMac = DOMAIN networks) => ~NetworkConfigBroke

\* _network_config returned
NetworkConfigCompleted ==
    \E k \in DOMAIN stagelog : stagelog[k] = "locale_config"

\* the DNS servers network n of the domain declares
DeclaredDnsOf(n) ==
    { n.ipv4.dns[k] : k \in DOMAIN n.ipv4.dns }
    \cup { n.ipv6.dns[k] : k \in DOMAIN n.ipv6.dns }

\* a written netctl profile of network n holds the server in its DNS line
InProfileDns(n, server) ==
    \E w \in DOMAIN Writes(InterfaceFile("archlinux", n.name)) :
        LET ls == Writes(InterfaceFile("archlinux", n.name))[w].lines IN
        \E k \in DOMAIN ls :
            /\ ls[k].key = "DNS"
            /\ \E j \in DOMAIN ls[k].value : ls[k].value[j] = server

\* the two resolvconf files are written and hold the server
InResolvconf(server) ==
    \A path \in ResolvconfPaths :
        /\ Len(Writes(path)) = 1
        /\ \E k \in DOMAIN Writes(path)[1].lines :
              Writes(path)[1].lines[k].nameserver = server

(***************************************************************************)
(* C26.  Once the network configuration of a guest is written, the         *)
(* resolver entries (the DNS line of the netctl profile of the network on  *)
(* Arch Linux, the resolvconf files on Ubuntu) hold every DNS server of    *)
(* every network that declares DNS servers, also of a network that         *)
(* declares only an IPv6 block or only an IPv4 block.  LibvirtNetwork.dns  *)
(* reads the ipv4 block first and gives up at the AttributeError of a      *)
(* missing block: the servers of a network with only an IPv6 block are     *)
(* lost and the statement is violated.                                     *)
(***************************************************************************)
C26_EveryDnsServerInResolver ==
    NetworkConfigCompleted =>
        \A i \in DOMAIN networks :
            \A server \in DeclaredDnsOf(networks[i]) :
                IF guesttype = "archlinux"
                THEN InProfileDns(networks[i], server)
                ELSE InResolvconf(server)

\* _access_config returned
AccessConfigCompleted ==
    /\ \E k \in DOMAIN stagelog : stagelog[k] = "access_config"
    /\ cleanupCalls >= 1
    /\ failedAt # "access_config"

\* the commands that set the password of root
UsermodLog ==
    SelectSeq(cmdlog, LAMBDA e : e.cmd.tool = "arch-chroot"
                                 /\ e.cmd.op = "usermod -p")

SshDir == Target \o <<"/root/.ssh">>

(***************************************************************************)
(* C27.  The root password is set only if the domain has a password, and   *)
(* the .ssh directory of root and the authorized_keys file are created     *)
(* only if the domain has SSH keys, the file with exactly one line         *)
(* "<type> <key> <label>" for each key; once the access configuration has  *)
(* returned, the password was set if there is one and directory and file   *)
(* exist if there are keys.  With neither, no password command is issued   *)
(* and neither directory nor file is created.                              *)
(***************************************************************************)
C27_AccessOnlyWhatIsDeclared ==
    /\ UsermodLog # <<>> => password
    /\ DirCreated(SshDir) => sshkeys # <<>>
    /\ \A w \in DOMAIN Writes(AuthorizedKeysPath) :
         LET ls == Writes(AuthorizedKeysPath)[w].lines IN
         /\ sshkeys # <<>>
         /\ Len(ls) = Len(sshkeys)
         /\ \A i \in DOMAIN sshkeys :
              ls[i] = [type |-> sshkeys[i].type, key |-> sshkeys[i].key,
                       label |-> sshkeys[i].label]
    /\ AccessConfigCompleted =>
         /\ password => Len(UsermodLog) = 1
         /\ sshkeys # <<>> =>
              /\ DirCreated(SshDir)
              /\ Len(Writes(AuthorizedKeysPath)) = 1

\* access configured for a domain with two keys and no password, and for
\* nothing else: the file has two lines and no password was set
C27_Witness ==
    /\ AccessConfigCompleted
    /\ ~password
    /\ Len(sshkeys) = 2
    /\ UsermodLog = <<>>
    /\ DirCreated(SshDir)
    /\ Len(Writes(AuthorizedKeysPath)) = 1
    /\ Len(Writes(AuthorizedKeysPath)[1].lines) = 2

\* entry k of the command log is the command tool/op on partition part
\* of device dev
IsCmd(k, tool, op) == cmdlog[k].cmd.tool = tool /\ cmdlog[k].cmd.op = op

\* entry k follows, on the same partition, the successful command tool/op
Follows(k, tool, op) ==
    /\ k > 1
    /\ IsCmd(k - 1, tool, op)
    /\ cmdlog[k - 1].rc = 0
    /\ cmdlog[k - 1].cmd.dev = cmdlog[k].cmd.dev
    /\ cmdlog[k - 1].cmd.part = cmdlog[k].cmd.part

\* the partitions whose swapoff is in the ledger
SwapoffLedger ==
    { [dev |-> self_cleanup[i].dev, part |-> self_cleanup[i].part] :
        i \in { j \in DOMAIN self_cleanup : self_cleanup[j].tool = "swapoff" } }

\* the partitions a swapon succeeded on
Activated ==
    { [dev |-> cmdlog[k].cmd.dev, part |-> cmdlog[k].cmd.part] :
        k \in { j \in DOMAIN cmdlog : IsCmd(j, "swapon", "")
                                      /\ cmdlog[j].rc = 0 } }

\* the blkid calls of the swap branch
SwapUuidReads ==
    { k \in DOMAIN cmdlog :
        /\ IsCmd(k, "blkid", "-s UUID")
        /\ cmdlog[k].stage = "prepare_disks"
        /\ k > 1
        /\ cmdlog[k - 1].cmd.tool # "mount" }

(***************************************************************************)
(* C28.  For a swap disk the partition type is set to 8200 first, then     *)
(* the partition is formatted with mkswap, then activated with swapon,     *)
(* then the swapoff is pushed on the ledger, then the UUID is read and     *)
(* appended to the swap UUIDs: each command follows the success of the one *)
(* before it on the same partition.  The swapoff of a partition is in the  *)
(* ledger if and only if its swapon succeeded, also when the UUID read     *)
(* that follows fails, and a UUID is in the swap collection only of a      *)
(* partition whose swapoff is in the ledger and whose UUID was read.       *)
(***************************************************************************)
C28_SwapStepsInOrder ==
    /\ \A k \in DOMAIN cmdlog :
         /\ IsCmd(k, "mkswap", "-f") => Follows(k, "sgdisk", "-t:8200")
         /\ IsCmd(k, "swapon", "") => Follows(k, "mkswap", "-f")
    /\ \A k \in SwapUuidReads :
         /\ Follows(k, "swapon", "")
         /\ [dev |-> cmdlog[k].cmd.dev, part |-> cmdlog[k].cmd.part]
               \in SwapoffLedger
    /\ SwapoffLedger = Activated
    /\ \A i \in DOMAIN self_uuid.swap :
         /\ self_uuid.swap[i] \in SwapoffLedger
         /\ \E k \in SwapUuidReads :
               /\ cmdlog[k].rc = 0
               /\ Uuid(cmdlog[k].cmd.dev, cmdlog[k].cmd.part)
                     = self_uuid.swap[i]
    /\ \A k \in SwapUuidReads :
         (cmdlog[k].rc = 0) =>
            \E i \in DOMAIN self_uuid.swap :
               self_uuid.swap[i] = Uuid(cmdlog[k].cmd.dev, cmdlog[k].cmd.part)

\* the UUID read of a swap partition failed after its swapon succeeded:
\* the swapoff is in the ledger and no swap UUID was recorded
C28_Witness ==
    /\ failure = "CalledProcessError"
    /\ \E k \in SwapUuidReads :
         /\ cmdlog[k].rc # 0
         /\ Follows(k, "swapon", "")
         /\ [dev |-> cmdlog[k].cmd.dev, part |-> cmdlog[k].cmd.part]
               \in SwapoffLedger
    /\ self_uuid.swap = <<>>

\* the commands that format, label, mount or activate a partition, set its
\* type to swap or read its UUID
DataPartitionTools == {"mkfs.ext4", "tune2fs", "mount", "mkswap", "swapon",
                       "blkid"}
UsesDataPartition(e) ==
    /\ e.stage = "prepare_disks"
    /\ \/ e.cmd.tool \in DataPartitionTools
       \/ e.cmd.tool = "sgdisk" /\ e.cmd.op = "-t:8200"

\* the number of the data partition of device dev
DataPartition(dev) == IF dev = <<"0">> THEN 2 ELSE 1

\* the UUIDs recorded in the map
RecordedUuids ==
    { self_uuid.ext4[m] : m \in DOMAIN self_uuid.ext4 }
    \cup { self_uuid.swap[i] : i \in DOMAIN self_uuid.swap }

(***************************************************************************)
(* C29.  Partition numbering restarts for each disk: the partition that    *)
(* is formatted, labelled, mounted or activated and whose UUID is read and *)
(* recorded is partition 2 on the disk with number "0" and partition 1 on  *)
(* every other disk, however many disks were prepared before it.           *)
(***************************************************************************)
C29_NumberingRestartsPerDisk ==
    /\ \A k \in DOMAIN cmdlog :
         UsesDataPartition(cmdlog[k]) =>
            cmdlog[k].cmd.part = DataPartition(cmdlog[k].cmd.dev)
    /\ \A u \in RecordedUuids : u.part = DataPartition(u.dev)

\* two disks were prepared, the one with number "0" first: the UUID of
\* partition 2 of the first and of partition 1 of the second are recorded
C29_Witness ==
    /\ PrepareDisksCompleted
    /\ Len(disks) = 2
    /\ Number(disks[1].alias) = <<"0">>
    /\ Uuid(<<"0">>, 2) \in RecordedUuids
    /\ Uuid(Number(disks[2].alias), 1) \in RecordedUuids

\* the stages that follow disk preparation, and the cleanup
AfterPrepareDisks ==
    {"install", "network_config", "locale_config", "boot_config",
     "access_config", "cleanup"}

(***************************************************************************)
(* C30.  Once disk preparation has finished, no later stage (install,      *)
(* network, locale, boot with the fstab, access) and no step of the        *)
(* cleanup adds, removes or changes an entry of the UUID map.              *)
(***************************************************************************)
C30_UuidMapFrozenAfterPrepare ==
    [][(pc \in AfterPrepareDisks) => (UNCHANGED self_uuid)]_vars

\* the fstab was written from a map with a root and a swap UUID and the
\* cleanup has run to its end: the map still holds both
C30_Witness ==
    /\ pc = "autostart"
    /\ host.fstab # <<>>
    /\ HasRootUuid(self_uuid)
    /\ self_uuid.swap # <<>>
    /\ \E k \in DOMAIN cmdlog : cmdlog[k].stage = "cleanup"

(***************************************************************************)
(* C37.  Running a host or chroot command never changes os.environ: the    *)
(* proxy variables, the fixed PATH of the chroot and the variables of the  *)
(* caller are set on a copy or on the dict of the caller, so a later       *)
(* command finds the ambient environment the earlier one found.            *)
(***************************************************************************)
C37_AmbientEnvironmentUnchanged == [][UNCHANGED os_environ]_vars

\* a second command was run, with a proxy and without env keyword, by the
\* Ubuntu flavor: it was executed with the proxy variables, and os.environ
\* holds none of them and is what the command found
C37_Witness ==
    /\ CallDone
    /\ step = 1
    /\ guesttype = "ubuntu"
    /\ call.args.kind = "run"
    /\ call.args.env = NoEnv
    /\ call.args.proxy # NoProxy
    /\ "http_proxy" \in DOMAIN call.execenv
    /\ "http_proxy" \notin DOMAIN os_environ
    /\ os_environ = call.args.environ

\* the udev rules written hold a rule with this MAC address and name
UdevRuleWritten(mac, name) ==
    \E w \in DOMAIN Writes(UdevRulesPath) :
        \E k \in DOMAIN Writes(UdevRulesPath)[w].lines :
            /\ Writes(UdevRulesPath)[w].lines[k].mac = mac
            /\ Writes(UdevRulesPath)[w].lines[k].name = name

(***************************************************************************)
(* C31.  In the network stage the i-th network of the descriptor, in name  *)
(* order, gets the i-th interface libvirt reports (its MAC address is the  *)
(* one in the udev rule of the network), the file of a network is written  *)
(* at most once, and once the stage has returned every network of the      *)
(* descriptor has its file, also when libvirt reports fewer interfaces     *)
(* than the descriptor has networks.  The loop runs over                   *)
(* zip(interfaces, networks), which stops at the shorter list: a network   *)
(* beyond the last interface gets no file; and the Ubuntu loop breaks off  *)
(* at network.interfaces before it writes the file of its first network.   *)
(* The statement is violated.                                              *)
(***************************************************************************)
C31_EveryNetworkConfigured ==
    /\ \A i \in DOMAIN networks :
         Len(Writes(InterfaceFile(guesttype, networks[i].name))) <= 1
    /\ (NetworkConfigCompleted \/ NetworkConfigBroke) =>
         /\ \A i \in 1..Min(Len(interfaces), Len(networks)) :
              UdevRuleWritten(interfaces[i], networks[i].name)
         /\ \A i \in DOMAIN networks :
              Len(Writes(InterfaceFile(guesttype, networks[i].name))) = 1

\* _access_config ended with the failure of the installation of ssh
SshInstallFailed ==
    /\ failedAt = "access_config"
    /\ failure = "RuntimeError"
    /\ cmdlog # <<>>
    /\ cmdlog[Len(cmdlog)].cmd.op = "apt-get install ssh"
    /\ cmdlog[Len(cmdlog)].rc # 0

(***************************************************************************)
(* C32.  In the Ubuntu flavor the policy script exists in the target only  *)
(* while ssh is being installed: when the access configuration has ended,  *)
(* by returning or by the failure of the installation, the script is not   *)
(* in the target.  The script is deleted by the statement that follows the *)
(* installation, which is not reached when the installation raises: the    *)
(* script stays in the target and the statement is violated.               *)
(***************************************************************************)
C32_PolicyScriptRemoved ==
    (guesttype = "ubuntu" /\ (AccessConfigCompleted \/ SshInstallFailed)) =>
        Writes(PolicyScript) = <<>>

\* release-all is over: cleanup() was called once and every command of the
\* ledger was run, in reverse order, and succeeded
ReleaseAllDone ==
    /\ cleanupCalls = 1
    /\ Len(ReleaseLog) = Len(self_cleanup)
    /\ \A k \in DOMAIN ReleaseLog :
         /\ ReleaseLog[k].cmd = self_cleanup[Len(self_cleanup) + 1 - k]
         /\ ReleaseLog[k].rc = 0

\* nothing of the guest's disks is attached to, mounted on or used as swap
\* by the host
HostReleased ==
    /\ host.attached = <<>>
    /\ host.mounts = <<>>
    /\ host.swaps = <<>>

\* the temporary mountpoint directory was created and removed again
MountdirRemoved == DiskBacked(guesttype) /\ stagelog # <<>> /\ ~mountdir

(***************************************************************************)
(* C33.  In a disk-backed run the terminal actions come in the order       *)
(* release-all (every umount, swapoff and detach of the ledger), set       *)
(* autostart, start the guest, remove the temporary mountpoint directory:  *)
(* autostart is set only after release-all is over, the guest is started   *)
(* only after autostart is set, the directory is removed only after the    *)
(* guest is started, and a run that ends well has done all four.  The      *)
(* guest is never started while a device of one of its disks is attached   *)
(* to, mounted on or used as swap by the host.                             *)
(***************************************************************************)
C33_TerminalActionsInOrder ==
    DiskBacked(guesttype) =>
        /\ autostarted => ReleaseAllDone
        /\ started => autostarted /\ HostReleased
        /\ MountdirRemoved => started
        /\ pc = "done" => ReleaseAllDone /\ autostarted /\ started /\ ~mountdir

\* a run with a mounted root disk and a swap disk that ended well: three
\* or more releases were made, then the guest was started, and the
\* directory is gone
C33_Witness ==
    /\ pc = "done"
    /\ DiskBacked(guesttype)
    /\ Len(ReleaseLog) >= 4
    /\ started
    /\ MountdirRemoved

\* '/dev/nbd%s' % disk.number
DevicePath(disk) == <<"/dev/nbd">> \o Number(disk.alias)

(***************************************************************************)
(* C34.  Within one run no two disks of the descriptor use the same        *)
(* block-device slot: the aliases of the disks being unique, the device    *)
(* paths /dev/nbd<number> of the disks the loop has reached are pairwise   *)
(* distinct, and no device is attached a second time while it is attached. *)
(* LibvirtDisk.number is the run of digits that ends the alias: two        *)
(* aliases that differ before their digits give the same device path, the  *)
(* second disk is attached to and partitioned on the device of the first   *)
(* and the statement is violated.                                          *)
(***************************************************************************)
C34_DistinctDeviceSlots ==
    /\ \A i, j \in 1..diskIdx :
         (i # j /\ disks[i].alias # disks[j].alias) =>
            DevicePath(disks[i]) # DevicePath(disks[j])
    /\ \A i, j \in DOMAIN host.attached :
         i # j => host.attached[i] # host.attached[j]

\* entry k of the command log installs the bootloader
IsGrubInstall(k) ==
    /\ cmdlog[k].stage = "boot_config"
    /\ cmdlog[k].cmd.op = "grub-install"

\* device dev was attached by disk preparation before entry k of the
\* command log and not detached before it
AttachedBefore(dev, k) ==
    /\ \E j \in 1..(k - 1) :
         /\ cmdlog[j].stage = "prepare_disks"
         /\ cmdlog[j].cmd = Cmd("qemu-nbd", "-c", dev, 0, NoPath)
         /\ cmdlog[j].rc = 0
    /\ \A j \in 1..(k - 1) :
         cmdlog[j].cmd # Cmd("qemu-nbd", "-d", dev, 0, NoPath)

(***************************************************************************)
(* C35.  Whenever the boot stage installs the bootloader to /dev/nbd0,     *)
(* that device was attached by disk preparation earlier in the run and has *)
(* not been detached, for every descriptor whose disk preparation and      *)
(* earlier stages succeeded.  Both flavors install to the literal          *)
(* /dev/nbd0: for a descriptor whose root disk has another number no disk  *)
(* is attached there and the statement is violated.                        *)
(***************************************************************************)
C35_BootDeviceAttached ==
    \A k \in DOMAIN cmdlog :
        IsGrubInstall(k) => AttachedBefore(cmdlog[k].cmd.dev, k)

\* seq is the start of longer
IsPrefix(seq, longer) ==
    /\ Len(seq) <= Len(longer)
    /\ \A i \in DOMAIN seq : seq[i] = longer[i]

\* a call of cleanup() has ended, by returning or by raising
CleanupEnded ==
    \/ pc = "autostart"
    \/ pc = "failed" /\ failedAt = "cleanup"

\* the last commands cleanup() ran are the whole ledger in reverse order
LastCallReleasedAll ==
    /\ Len(ReleaseLog) >= Len(self_cleanup)
    /\ \A k \in DOMAIN self_cleanup :
         ReleaseLog[Len(ReleaseLog) - Len(self_cleanup) + k].cmd
             = Reversed(self_cleanup)[k]

(***************************************************************************)
(* C36.  The ledger is append-only for the whole lifetime of a             *)
(* provisioner: a step changes it only by adding entries at its end, and   *)
(* cleanup() removes none.  A second call of cleanup() on the same         *)
(* provisioner therefore issues every release command a second time: when  *)
(* a second or later call has ended, the last commands it ran are the      *)
(* whole ledger in reverse order.  The ledger is kept, but cleanup() runs  *)
(* its commands fail-hard: the repeated call raises at its first command,  *)
(* the umount or swapoff of what the first call released, and issues no    *)
(* other; the statement is violated.                                       *)
(***************************************************************************)
C36_LedgerAppendOnly ==
    /\ [][IsPrefix(self_cleanup, self_cleanup')]_vars
    /\ []((cleanupCalls >= 2 /\ CleanupEnded) => LastCallReleasedAll)

\* the children of the <domain> element with the tag
Children(tag) == SelectSeq(dom_xml, LAMBDA e : e.tag = tag)

\* there is exactly one child with the tag, and its text is num / text
OneChild(tag, num, text) ==
    /\ Len(Children(tag)) = 1
    /\ Children(tag)[1].num = num
    /\ Children(tag)[1].text = text

(***************************************************************************)
(* C38.  After any sequence of assignments to memory, vcpu and name of a   *)
(* LibvirtDomain, the description holds exactly one element for each       *)
(* attribute that was assigned: one <memory> and one <currentMemory>, both *)
(* 1024 times the megabytes assigned last, one <vcpu> with the value       *)
(* assigned last and one <name> with the name assigned last; no attribute  *)
(* ever has a second element.                                              *)
(***************************************************************************)
C38_OneElementPerAttribute ==
    /\ \A tag \in {"memory", "currentMemory", "vcpu", "name"} :
         Len(Children(tag)) <= 1
    /\ dom_last.memory.set =>
         /\ OneChild("memory", 1024 * dom_last.memory.value, "")
         /\ OneChild("currentMemory", 1024 * dom_last.memory.value, "")
    /\ dom_last.vcpu.set => OneChild("vcpu", dom_last.vcpu.value, "")
    /\ dom_last.name.set => OneChild("name", 0, dom_last.name.text)

\* four assignments were made, to each attribute at least once and so to
\* one of them twice: the description has the four elements
C38_Witness ==
    /\ step >= 4
    /\ dom_last.memory.set
    /\ dom_last.vcpu.set
    /\ Len(dom_xml) = 4

====
